---- MODULE Spec2Model ----
(***************************************************************************)
(* Workspace synchronisation engine of the editor shell.                   *)
(*                                                                         *)
(* renderer.js: sendToServer, loadServerSettings, syncWithServer, the      *)
(* server-save handler, applyWorkspace, runCodeOnServer, setupAutoSync,    *)
(* checkRcloneAvailability, updateRunOutput, the explorer (renderTree,     *)
(* promptCreate, promptRename, promptDelete, the workspace-refresh         *)
(* listener), the tabs (openFile, activateTab, closeTab, saveActiveTab).   *)
(* main.js: readServerSettings, writeServerSettings, updateRcloneConfig,   *)
(* readTree, watchFolderRecursive, attachWatcher, openWorkspace, the       *)
(* 'pick-workspace' handler.                                               *)
(*                                                                         *)
(* Spec and FairSpec are the synchronisation engine.  ToolSpec, PathSpec,  *)
(* ReportSpec, RunRequestSpec and TreeSpec each study one function on      *)
(* inputs drawn by their initial predicate; WatchSpec is the change        *)
(* watcher of the main process and StoreSpec its settings store; SaveSpec  *)
(* and OpenSpec are the window and the main process together, during a     *)
(* save of the settings and during the open of a workspace.  ExplorerSpec  *)
(* is the file explorer of the window with the main process behind it,     *)
(* TabSpec the list of tabs (opens, closes, renames), EditSpec the tabs    *)
(* with the texts of their models (edits and saves), and LogSpec the       *)
(* content of the output log over the writes of two runs.                  *)
(*                                                                         *)
(* Strings whose characters the code inspects (paths, the sync-interval    *)
(* input) are sequences of one-character strings.  The renderer runs on    *)
(* one event loop: an action is one handler or one continuation of an      *)
(* async function, from the event that resumes it to its next await.       *)
(***************************************************************************)
EXTENDS Integers, Sequences, FiniteSets, Bags, TLC

\* ------------------------------------------------------------------ bounds
\* calls of syncWithServer/runCodeOnServer suspended at an await at one time
MaxInFlight == 2
\* entries the browser's table of active interval timers can hold
MaxTimers == 2

\* ------------------------------------------------------------ input values
RootA == <<"/", "w", "/", "a">>
RootB == <<"/", "w", "/", "b">>
Roots == {RootA, RootB}
\* `workspaceRoot = null`
NoRoot == <<>>

\* files the run button can be pressed on (the path of the active tab)
RunFiles == {RootA \o <<"/", "m">>}

\* values typed in the server-ip, server-user and sync-interval inputs of the
\* settings dialog when it is saved
SaveInputs ==
    { <<"10.0.0.1", "dev", <<"6", "0">> >>,
      <<"10.0.0.1", "dev", <<"0">> >>,
      <<"", "dev", <<"-", "5">> >>,
      <<"10.0.0.1", "", <<>> >> }
\* error texts of a {success:false} checkFolder response
ServerErrors == {"EACCES", "ENOSPC"}

\* an optional number: undefined / NaN is None, a number n is Some(n)
None == <<>>
Some(n) == <<n>>

\* `return null`
Null == [type |-> "null"]

VARIABLES
    workspaceRoot,     \* renderer.js: let workspaceRoot
    serverSettings,    \* renderer.js: let serverSettings
    autoSyncInterval,  \* renderer.js: let autoSyncInterval (None = null)
    timers,            \* the window's active interval timers
    calls,             \* bag of the syncWithServer/runCodeOnServer calls suspended at an await
    lastReturn,        \* what the syncWithServer call that returned last did
    loadPc,            \* position of loadServerSettings
    savePc,            \* position of the server-save handler
    saveConfig,        \* `config` of the suspended server-save handler
    tickParity,        \* number of timer callbacks run so far, modulo 2
    arg,               \* the argument of the function under study
    res,               \* the value it returned: None before the call, then Some(value)
    mainRoot,          \* main.js: let workspaceRoot
    dirs,              \* the directories that exist below the workspace roots
    watchers,          \* main.js: the keys of the Map watchers
    handles,           \* the watch handles that fs.watch returned and that are not closed
    lastOp,            \* what the last handler of the main process did to the watches
    events,            \* changes reported to a watch whose callback has not run yet
    sent,              \* the last message the main process sent to the window
    persisted,         \* main.js: the text of the file SERVER_SETTINGS_PATH, if it exists
    bundled,           \* the text of the bundled server-settings.json, if it exists
    appData,           \* whether process.env.APPDATA is defined
    profile,           \* the remote profile of the sync tool, once it was created
    pending,           \* the settings handler suspended at `await updateRcloneConfig`
    lastStore,         \* the settings handler that returned last, and its result
    saveReply,         \* whether the result of 'write-server-settings' is on its way
                       \* to the server-save handler of the window
    inbox,             \* the messages and replies of the main process about an opened
                       \* workspace that the window has not handled yet
    armPending,        \* main.js: the folder openWorkspace has sent and not yet armed
    expandedPaths,     \* renderer.js: let expandedPaths
    rendered,          \* the tree that renderTree put into #file-tree last
    refreshing,        \* the calls of window.api.pickWorkspace made to refresh the tree
                       \* whose dialog is open
    tabs,              \* renderer.js: let tabs
    activeTabPath,     \* renderer.js: let activeTabPath
    models,            \* the text models of the editor: their uri and their content
    tabCalls           \* the openFile, saveActiveTab and rename handlers suspended at an await

\* the state of the synchronisation engine
syncVars == <<workspaceRoot, serverSettings, autoSyncInterval, timers, calls,
              lastReturn, loadPc, savePc, saveConfig, tickParity>>

\* the state of the study of one function on its own
fnVars == <<arg, res>>

\* the state of the change watcher of the main process
watchVars == <<mainRoot, dirs, watchers, handles, lastOp, events, sent>>

\* the settings store of the main process
storeVars == <<persisted, bundled, appData, profile, pending, lastStore, saveReply>>

\* a workspace open on its way from the main process to the window
openVars == <<inbox, armPending>>

\* the explorer of the window
explorerVars == <<expandedPaths, rendered, refreshing>>

\* the tabs of the window and the editor
tabVars == <<tabs, activeTabPath, models, tabCalls>>

\* all but the function under study, the change watcher, the settings store
notFnVars == <<syncVars, watchVars, storeVars, openVars, explorerVars, tabVars>>
notWatchVars == <<syncVars, fnVars, storeVars, tabVars>>
notStoreVars == <<syncVars, fnVars, watchVars, openVars, explorerVars, tabVars>>

\* what most handlers of the synchronisation engine leave alone
mainVars == <<fnVars, watchVars, storeVars, openVars>>
otherVars == <<mainVars, explorerVars, tabVars>>

vars == <<syncVars, otherVars>>

\* -------------------------------------------------------- pure functions
IsSep(ch) == ch \in {"/", "\\"}

SetMax(S) == CHOOSE m \in S : \A x \in S : x <= m

\* str.split(/[/\\]/).pop()
LastSegment(str) ==
    LET seps == {i \in 1..Len(str) : IsSep(str[i])}
    IN  IF seps = {} THEN str ELSE SubSeq(str, SetMax(seps) + 1, Len(str))

DigitValue(ch) ==
    CASE ch = "0" -> 0 [] ch = "1" -> 1 [] ch = "2" -> 2 [] ch = "3" -> 3
      [] ch = "4" -> 4 [] ch = "5" -> 5 [] ch = "6" -> 6 [] ch = "7" -> 7
      [] ch = "8" -> 8 [] ch = "9" -> 9

IsDigit(ch) == ch \in {"0", "1", "2", "3", "4", "5", "6", "7", "8", "9"}

RECURSIVE DigitsValue(_, _)
\* value of the longest prefix of digits of str, acc being the value so far
DigitsValue(str, acc) ==
    IF str = <<>> \/ ~IsDigit(Head(str)) THEN acc
    ELSE DigitsValue(Tail(str), 10 * acc + DigitValue(Head(str)))

\* parseInt(str): an optional sign, then the longest prefix of digits;
\* NaN (None) when there is no digit
ParseInt(str) ==
    LET neg  == str # <<>> /\ Head(str) = "-"
        body == IF str # <<>> /\ Head(str) \in {"-", "+"} THEN Tail(str) ELSE str
    IN  IF body = <<>> \/ ~IsDigit(Head(body)) THEN None
        ELSE Some(IF neg THEN 0 - DigitsValue(body, 0) ELSE DigitsValue(body, 0))

\* `x || d` for an optional number x: undefined, NaN and 0 are falsy
OrDefault(x, d) == IF x = None \/ x[1] = 0 THEN d ELSE x[1]

\* the settings object {}: a missing string field reads as undefined, which
\* the code only ever tests for truthiness, as it does ""
EmptySettings ==
    [ip |-> "", user |-> "", pass |-> "", rclonePath |-> "", syncInterval |-> None]

\* `config` built by the server-save handler from the inputs of the dialog
SaveConfig(ip, user, intervalInput) ==
    [ip |-> ip, user |-> user, pass |-> "", rclonePath |-> "",
     syncInterval |-> Some(OrDefault(ParseInt(intervalInput), 30))]

\* what readServerSettings can return: {} (no file and no bundled default, or
\* an exception), and the parsed contents of the settings file or of the
\* bundled default: a complete record, one whose interval was set to 0
LoadReplies ==
    { EmptySettings,
      [ip |-> "10.0.0.1", user |-> "dev", pass |-> "", rclonePath |-> "",
       syncInterval |-> Some(30)],
      [ip |-> "10.0.0.1", user |-> "dev", pass |-> "", rclonePath |-> "",
       syncInterval |-> Some(0)] }

\* ------------------------------------------------------------ scheduler
TimerIds == 1..MaxTimers

\* setInterval: the handle of the new timer, an integer greater than zero that
\* no active timer has
FreshTimerId(active) ==
    CHOOSE id \in TimerIds \ {t.id : t \in active} :
        \A other \in TimerIds \ {t.id : t \in active} : id <= other

\* the previous timer is not cleared
ClearedTimersNoClear(handle, active) == active

\* clearInterval(autoSyncInterval) under `if (autoSyncInterval)`
ClearedTimers(handle, active) ==
    IF handle # None THEN {t \in active : t.id # handle[1]} ELSE active

\* `serverSettings.syncInterval || 30`
ArmInterval(settings) == OrDefault(settings.syncInterval, 30)

\* setupAutoSync()
SetupAutoSync(settings) ==
    LET cleared  == ClearedTimers(autoSyncInterval, timers)
        interval == ArmInterval(settings)
    IN  IF interval > 0
        THEN /\ TimerIds \ {t.id : t \in cleared} # {}
             /\ LET id == FreshTimerId(cleared)
                IN  /\ timers' = cleared \cup {[id |-> id, period |-> interval]}
                    /\ autoSyncInterval' = Some(id)
        ELSE /\ timers' = cleared
             /\ autoSyncInterval' = None

\* a one-shot timer (setTimeout): it is gone once its callback ran
TimersAfterTickOnce(t, active) == active \ {t}

\* the active timers after the callback of timer t ran: setInterval repeats
TimersAfterTick(t, active) == active

\* ---------------------------------------------------------- sync engine
\* a call of syncWithServer, or of runCodeOnServer around it (run), suspended
\* at an await.  pc is the await: "fetch" the checkFolder request, "rclone"
\* the sync-tool invocation, "runCode" the runCode request.  A local that is
\* not read again is cleared.
\*   projectName: const projectName of syncWithServer
\*   mirrorRoot:  the workspaceRoot written into rcloneCommand
\*   folderName:  folderName of the runCode request
\*   entryOk:     the configuration was complete when the call was entered
\*   checkOk:     the checkFolder response was positive
\*   syncOk:      syncSuccess of runCodeOnServer
Call(run, pc, projectName, mirrorRoot, folderName, filePath, entryOk, checkOk, syncOk) ==
    [run |-> run, pc |-> pc, projectName |-> projectName, mirrorRoot |-> mirrorRoot,
     folderName |-> folderName, filePath |-> filePath,
     entryOk |-> entryOk, checkOk |-> checkOk, syncOk |-> syncOk]

NoReturn == [result |-> "none", reason |-> "none", msg |-> "", run |-> FALSE]

\* the value a syncWithServer call returned ("ok" true, "fail" false, "threw" an
\* exception left it) and the line it wrote to the log before
Returned(result, reason, msg, run) ==
    [result |-> result, reason |-> reason, msg |-> msg, run |-> run]

\* a root is open and host and user are set
ConfigurationOk(root, settings) ==
    root # NoRoot /\ settings.ip # "" /\ settings.user # ""

\* the user is not tested
SyncPreconditionIgnoresUser(root, settings) ==
    root = NoRoot \/ settings.ip = ""

\* `if (!workspaceRoot || !serverSettings.ip || !serverSettings.user)`
SyncPreconditionFails(root, settings) ==
    root = NoRoot \/ settings.ip = "" \/ settings.user = ""

\* sendToServer: `if (!serverSettings.ip) return null`
SendToServerRefuses(settings) == settings.ip = ""

\* sendToServer: what its caller gets for an outcome of fetch and response.json()
SendToServerResult(resp) ==
    IF resp.kind \in {"reject", "http"} THEN [kind |-> "null", error |-> ""] ELSE resp

\* any response that arrived counts as positive
CheckFolderProceedsOnAnyResponse(checkResult) == checkResult.kind \in {"ok", "neg"}

\* `if (checkResult.success)` after `if (!checkResult) return false`
CheckFolderProceeds(checkResult) == checkResult.kind = "ok"

\* no catch block: the exception leaves syncWithServer
ExceptionPropagates == "threw"

\* the catch block of syncWithServer: `return false`
ExceptionOutcome == "fail"

\* the request is sent whatever the mirror returned
RunProceedsAlways(syncResult) == TRUE

\* runCodeOnServer: `if (!syncSuccess) return` is not taken
RunProceeds(syncResult) == syncResult = "ok"

InFlight == BagCardinality(calls)

Remove(c) == calls (-) SetToBag({c})

\* the suspended calls after a syncWithServer call returned `result`:
\* runCodeOnServer goes on to send the runCode request (sendToServer sends
\* nothing without a host), every other caller ignores the result
AfterSync(base, run, filePath, result, root, settings) ==
    IF run /\ RunProceeds(result) /\ ~SendToServerRefuses(settings)
    THEN base (+) SetToBag({Call(TRUE, "runCode", <<>>, NoRoot, LastSegment(root),
                                 filePath, TRUE, TRUE, result = "ok")})
    ELSE base

\* syncWithServer() from its entry to its first await or to its return
SyncEntry(run, root, settings, filePath) ==
    IF SyncPreconditionFails(root, settings)
    THEN /\ lastReturn' = Returned("fail", "config", "", run)
         /\ calls' = AfterSync(calls, run, filePath, "fail", root, settings)
    ELSE IF SendToServerRefuses(settings)
    THEN /\ lastReturn' = Returned("fail", "noResponse", "", run)
         /\ calls' = AfterSync(calls, run, filePath, "fail", root, settings)
    ELSE /\ calls' = calls (+) SetToBag({Call(run, "fetch", LastSegment(root), NoRoot, <<>>,
                                              filePath, ConfigurationOk(root, settings),
                                              FALSE, FALSE)})
         /\ lastReturn' = lastReturn

\* outcomes of fetch and response.json() for a checkFolder request: the
\* promise rejects, the status is not OK, or the body is {success:true} or
\* {success:false, error}
CheckFolderOutcomes ==
    {[kind |-> k, error |-> ""] : k \in {"reject", "http", "ok"}}
      \cup {[kind |-> "neg", error |-> e] : e \in ServerErrors}

\* outcomes of window.api.executeRclone(rcloneCommand): the promise resolves
\* with a result whose error is null or a message, or the IPC call rejects
RcloneOutcomes == {"noError", "error", "rejected"}

\* ---------------------------------------------------------------- actions
SyncInit ==
    /\ workspaceRoot = NoRoot
    /\ serverSettings = EmptySettings
    /\ autoSyncInterval = None
    /\ timers = {}
    /\ calls = EmptyBag
    /\ lastReturn = NoReturn
    /\ loadPc = "reading"
    /\ savePc = "idle"
    /\ saveConfig = EmptySettings
    /\ tickParity = 0
    /\ expandedPaths = {}
    /\ rendered = Null
    /\ refreshing = FALSE
    /\ tabs = <<>>
    /\ activeTabPath = NoRoot
    /\ models = {}
    /\ tabCalls = EmptyBag

\* no function is under study
FnIdle == arg = <<>> /\ res = None

\* a message of the main process to the window: the channel and its rootPath
Message(channel, rootPath) == [channel |-> channel, rootPath |-> rootPath]
NoMessage == Message("none", NoRoot)

\* a handler of the main process: the folder or changed path it was given,
\* whether an exception left it, the paths whose watch it closed and the
\* paths it made a watch for
Op(op, path, threw, closed, created) ==
    [op |-> op, path |-> path, threw |-> threw, closed |-> closed, created |-> created]
NoOp == Op("none", NoRoot, FALSE, {}, {})

\* the main process before a workspace is opened
WatchIdle ==
    /\ mainRoot = NoRoot /\ dirs = {} /\ watchers = {} /\ handles = EmptyBag
    /\ lastOp = NoOp /\ events = {} /\ sent = NoMessage

\* a settings handler suspended at `await updateRcloneConfig(settings)`: which
\* of the two it is, where its settings came from, and whether it wrote the file
Pending(op, from, settings, wrote) ==
    [op |-> op, from |-> from, settings |-> settings, wrote |-> wrote]
NoPending == Pending("none", "nothing", EmptySettings, FALSE)

\* a settings handler in brief: which it was, its settings, and what it
\* returned: the settings readServerSettings returned, or the boolean
\* writeServerSettings returned
Brief(op, settings, result, ok) ==
    [op |-> op, settings |-> settings, result |-> result, ok |-> ok]

\* a settings handler that returned: to the fields of Pending are added how
\* updateRcloneConfig ended, the value returned (as in Brief), and the
\* handler that returned before it
Done(p, provision, result, ok, after) ==
    [op |-> p.op, from |-> p.from, settings |-> p.settings, wrote |-> p.wrote,
     provision |-> provision, result |-> result, ok |-> ok, after |-> after]
NoStore ==
    Done(NoPending, "none", EmptySettings, FALSE,
         Brief("none", EmptySettings, EmptySettings, FALSE))

\* the settings store before the first request, with no file at all
StoreIdle ==
    /\ persisted = None /\ bundled = None /\ appData = TRUE /\ profile = None
    /\ pending = NoPending /\ lastStore = NoStore /\ saveReply = FALSE

\* no workspace open is on its way
OpenIdle == inbox = <<>> /\ armPending = NoRoot

\* the main process before the first request of the window
MainIdle == WatchIdle /\ StoreIdle /\ OpenIdle

Init == SyncInit /\ FnIdle /\ MainIdle

\* loadServerSettings after `await window.api.readServerSettings()`
LoadServerSettings(reply) ==
    /\ loadPc = "reading"
    /\ loadPc' = "done"
    /\ serverSettings' = reply
    /\ SetupAutoSync(reply)
    /\ UNCHANGED <<workspaceRoot, calls, lastReturn, savePc, saveConfig, tickParity>>
    /\ UNCHANGED otherVars

\* the server-save handler up to `await window.api.writeServerSettings(config)`
ServerSaveClick(ip, user, intervalInput) ==
    /\ savePc = "idle"
    /\ savePc' = "writing"
    /\ saveConfig' = SaveConfig(ip, user, intervalInput)
    /\ UNCHANGED <<workspaceRoot, serverSettings, autoSyncInterval, timers, calls,
                   lastReturn, loadPc, tickParity>>
    /\ UNCHANGED otherVars

\* the server-save handler from the return of writeServerSettings (its value
\* is not read) to the await inside checkRcloneAvailability
ServerSaveApplied ==
    /\ savePc = "writing"
    /\ savePc' = "checking"
    /\ serverSettings' = saveConfig
    /\ saveConfig' = EmptySettings
    /\ SetupAutoSync(saveConfig)
    /\ UNCHANGED <<workspaceRoot, calls, lastReturn, loadPc, tickParity>>

\* the same with the main process left as it is
ServerSaveApply == ServerSaveApplied /\ UNCHANGED otherVars

\* the server-save handler after checkRcloneAvailability: connectServer(config);
\* syncWorkspace()
ServerSaveSync ==
    /\ savePc = "checking"
    /\ InFlight < MaxInFlight
    /\ savePc' = "idle"
    /\ SyncEntry(FALSE, workspaceRoot, serverSettings, <<>>)
    /\ UNCHANGED <<workspaceRoot, serverSettings, autoSyncInterval, timers,
                   loadPc, saveConfig, tickParity>>
    /\ UNCHANGED otherVars

\* applyWorkspace(rootPath, tree)
ApplyWorkspaceApplied(rootPath) ==
    /\ InFlight < MaxInFlight
    /\ workspaceRoot' = rootPath
    /\ SyncEntry(FALSE, rootPath, serverSettings, <<>>)
    /\ UNCHANGED <<serverSettings, autoSyncInterval, timers, loadPc, savePc,
                   saveConfig, tickParity>>

\* renderTree(tree)
RenderTree(tree) == rendered' = tree

\* applyWorkspace(rootPath, tree): what the explorer shows
ShowWorkspace(rootPath, tree) ==
    /\ expandedPaths' = {rootPath}
    /\ RenderTree(tree)

\* the tree of a folder without entries
EmptyFolder(dirPath) ==
    [name |-> LastSegment(dirPath), path |-> dirPath, type |-> "folder", children |-> <<>>]

\* the same for an empty folder, with the main process left as it is
ApplyWorkspace(rootPath) ==
    /\ ApplyWorkspaceApplied(rootPath)
    /\ ShowWorkspace(rootPath, EmptyFolder(rootPath))
    /\ UNCHANGED <<mainVars, refreshing, tabVars>>

\* the callback of the interval timer t: syncWithServer()
TimerTick(t) ==
    /\ t \in timers
    /\ InFlight < MaxInFlight
    /\ tickParity' = 1 - tickParity
    /\ timers' = TimersAfterTick(t, timers)
    /\ SyncEntry(FALSE, workspaceRoot, serverSettings, <<>>)
    /\ UNCHANGED <<workspaceRoot, serverSettings, autoSyncInterval,
                   loadPc, savePc, saveConfig>>
    /\ UNCHANGED otherVars

\* runCodeOnServer(filePath, content) up to the await inside syncWithServer
RunCodeOnServer(filePath) ==
    /\ InFlight < MaxInFlight
    /\ IF workspaceRoot = NoRoot \/ serverSettings.ip = ""
       THEN UNCHANGED <<calls, lastReturn>>
       ELSE SyncEntry(TRUE, workspaceRoot, serverSettings, filePath)
    /\ UNCHANGED <<workspaceRoot, serverSettings, autoSyncInterval, timers,
                   loadPc, savePc, saveConfig, tickParity>>
    /\ UNCHANGED otherVars

\* syncWithServer after `await sendToServer('checkFolder', ...)`, up to
\* `await window.api.executeRclone(rcloneCommand)` or to its return
CheckFolderResponse(c, resp) ==
    /\ BagIn(c, calls)
    /\ c.pc = "fetch"
    /\ LET checkResult == SendToServerResult(resp) IN
       IF checkResult.kind = "null"
       THEN /\ lastReturn' = Returned("fail", "noResponse", "", c.run)
            /\ calls' = AfterSync(Remove(c), c.run, c.filePath, "fail",
                                  workspaceRoot, serverSettings)
       ELSE IF CheckFolderProceeds(checkResult)
       THEN /\ calls' = Remove(c) (+)
                          SetToBag({[c EXCEPT !.pc = "rclone", !.projectName = <<>>,
                                              !.checkOk = (resp.kind = "ok"),
                                              !.mirrorRoot = workspaceRoot]})
            /\ lastReturn' = lastReturn
       ELSE /\ lastReturn' = Returned("fail", "remoteFolder", checkResult.error, c.run)
            /\ calls' = AfterSync(Remove(c), c.run, c.filePath, "fail",
                                  workspaceRoot, serverSettings)
    /\ UNCHANGED <<workspaceRoot, serverSettings, autoSyncInterval, timers,
                   loadPc, savePc, saveConfig, tickParity>>
    /\ UNCHANGED otherVars

\* syncWithServer after `await window.api.executeRclone(rcloneCommand)`, and,
\* when the caller is runCodeOnServer, that function up to
\* `await sendToServer('runCode', ...)` or to its return
ExecuteRcloneReturn(c, outcome) ==
    /\ BagIn(c, calls)
    /\ c.pc = "rclone"
    /\ LET result == CASE outcome = "noError"  -> "ok"
                       [] outcome = "error"    -> "fail"
                       [] outcome = "rejected" -> ExceptionOutcome
           reason == CASE outcome = "noError"  -> "completed"
                       [] outcome = "error"    -> "tool"
                       [] outcome = "rejected" -> "exception"
       IN  /\ lastReturn' = Returned(result, reason, "", c.run)
           /\ calls' = AfterSync(Remove(c), c.run, c.filePath, result,
                                 workspaceRoot, serverSettings)
    /\ UNCHANGED <<workspaceRoot, serverSettings, autoSyncInterval, timers,
                   loadPc, savePc, saveConfig, tickParity>>
    /\ UNCHANGED otherVars

\* runCodeOnServer after `await sendToServer('runCode', ...)`: the result is
\* written to the log
RunCodeResponse(c) ==
    /\ BagIn(c, calls)
    /\ c.pc = "runCode"
    /\ calls' = Remove(c)
    /\ UNCHANGED <<workspaceRoot, serverSettings, autoSyncInterval, timers, lastReturn,
                   loadPc, savePc, saveConfig, tickParity>>
    /\ UNCHANGED otherVars

Next ==
    \/ \E reply \in LoadReplies : LoadServerSettings(reply)
    \/ \E in \in SaveInputs : ServerSaveClick(in[1], in[2], in[3])
    \/ ServerSaveApply
    \/ ServerSaveSync
    \/ \E rootPath \in Roots : ApplyWorkspace(rootPath)
    \/ \E t \in timers : TimerTick(t)
    \/ \E filePath \in RunFiles : RunCodeOnServer(filePath)
    \/ \E c \in BagToSet(calls), resp \in CheckFolderOutcomes : CheckFolderResponse(c, resp)
    \/ \E c \in BagToSet(calls), outcome \in RcloneOutcomes : ExecuteRcloneReturn(c, outcome)
    \/ \E c \in BagToSet(calls) : RunCodeResponse(c)

Spec == Init /\ [][Next]_vars

\* the scheduler on its own: the program with the run button left alone
SchedulerNext ==
    \/ \E reply \in LoadReplies : LoadServerSettings(reply)
    \/ \E in \in SaveInputs : ServerSaveClick(in[1], in[2], in[3])
    \/ ServerSaveApply
    \/ ServerSaveSync
    \/ \E rootPath \in Roots : ApplyWorkspace(rootPath)
    \/ \E t \in timers : TimerTick(t)
    \/ \E c \in BagToSet(calls), resp \in CheckFolderOutcomes : CheckFolderResponse(c, resp)
    \/ \E c \in BagToSet(calls), outcome \in RcloneOutcomes : ExecuteRcloneReturn(c, outcome)

\* the callback of an active timer is run again and again (the browser does
\* not wait for a free slot among the suspended calls), and a pending request
\* or sync-tool invocation ends
Fairness ==
    /\ SF_vars(\E t \in timers : TimerTick(t))
    /\ WF_vars(\E c \in BagToSet(calls), resp \in CheckFolderOutcomes : CheckFolderResponse(c, resp))
    /\ WF_vars(\E c \in BagToSet(calls), outcome \in RcloneOutcomes : ExecuteRcloneReturn(c, outcome))

FairSpec == Init /\ [][SchedulerNext]_vars /\ Fairness

\* ------------------------------------------------- strings of the code
\* the characters of a string literal, one one-character string each
Chars(s) == [i \in 1..Len(s) |-> SubSeq(s, i, i)]

SetMin(S) == CHOOSE m \in S : \A x \in S : m <= x

\* str.includes(sub)
Includes(str, sub) ==
    \E i \in 0..(Len(str) - Len(sub)) : SubSeq(str, i + 1, i + Len(sub)) = sub

\* str.startsWith(prefix)
StartsWith(str, prefix) ==
    Len(prefix) <= Len(str) /\ SubSeq(str, 1, Len(prefix)) = prefix

\* str.endsWith(suffix)
EndsWith(str, suffix) ==
    Len(suffix) <= Len(str)
      /\ SubSeq(str, Len(str) - Len(suffix) + 1, Len(str)) = suffix

RECURSIVE Split(_, _)
\* str.split(ch) for a one-character separator
Split(str, ch) ==
    LET hits == {i \in 1..Len(str) : str[i] = ch}
    IN  IF hits = {} THEN <<str>>
        ELSE <<SubSeq(str, 1, SetMin(hits) - 1)>>
               \o Split(SubSeq(str, SetMin(hits) + 1, Len(str)), ch)

RECURSIVE Join(_, _)
\* parts.join(sep)
Join(parts, sep) ==
    IF parts = <<>> THEN <<>>
    ELSE IF Len(parts) = 1 THEN parts[1]
    ELSE parts[1] \o sep \o Join(Tail(parts), sep)

RECURSIVE Concat(_)
\* the strings of a list one after the other
Concat(parts) == IF parts = <<>> THEN <<>> ELSE Head(parts) \o Concat(Tail(parts))

\* the sequences of at most n elements of S
SeqsUpTo(S, n) == UNION {[1..k -> S] : k \in 0..n}

\* ------------------------------------- the result of the sync-tool invocation
\* fragments an error message of the invocation is made of
MaxErrorParts == 2
\* lines of the captured stderr
MaxStderrLines == 3

\* the localized signature (renderer.js:172), each character written as its code point
LocalizedNotFound ==
    <<"U+7CFB", "U+7EDF", "U+627E", "U+4E0D", "U+5230", "U+6307", "U+5B9A", "U+7684",
      "U+6587", "U+4EF6">>
\* the fragment that stands for it in an input
LocalizedPart == "(zh) the system cannot find the file specified"

NotFoundParts == {"command not found", "The system cannot find", LocalizedPart}
SectionPart == "didn't find section"
ErrorParts == NotFoundParts \cup {SectionPart, "bash: rclone: ", " in config file"}

ProgressLines == {"Transferred: 3 files", "Elapsed time: 2s", "Checking: a"}
AdvisoryLines == {"permission denied: /x", " Checking: b", ""}

\* results of executeRclone: the fragments of result.error (none: null) and
\* the lines of result.stderr, which is read only when there is no error
ToolInputs ==
    [error : SeqsUpTo(ErrorParts, MaxErrorParts),
     stderr : SeqsUpTo(ProgressLines \cup AdvisoryLines, 1)]
      \cup [error : {<<>>},
            stderr : SeqsUpTo(ProgressLines \cup AdvisoryLines, MaxStderrLines)]

\* the signatures are looked for, "didn't find section" is not
IsRcloneNotFoundAnySection(error) ==
    \/ Includes(error, LocalizedNotFound)
    \/ Includes(error, Chars("command not found"))
    \/ Includes(error, Chars("The system cannot find"))

\* const isRcloneNotFound
IsRcloneNotFound(error) ==
    /\ \/ Includes(error, LocalizedNotFound)
       \/ Includes(error, Chars("command not found"))
       \/ Includes(error, Chars("The system cannot find"))
    /\ ~Includes(error, Chars("didn't find section"))

\* "Checking:" lines are kept
KeptLineChecking(line) ==
    ~StartsWith(line, Chars("Transferred:")) /\ ~StartsWith(line, Chars("Elapsed time:"))

\* the predicate of the filter over the lines of result.stderr
KeptLine(line) ==
    /\ ~StartsWith(line, Chars("Transferred:"))
    /\ ~StartsWith(line, Chars("Elapsed time:"))
    /\ ~StartsWith(line, Chars("Checking:"))

\* const filteredStderr
FilteredStderr(stderr) == Join(SelectSeq(Split(stderr, "\n"), KeptLine), <<"\n">>)

\* diagnostic text that remains makes the mirror fail
MirrorOutcomeStrict(filteredStderr) == IF filteredStderr # <<>> THEN "fail" ELSE "ok"

\* what syncWithServer returns once result.error is falsy: `return true`
MirrorOutcome(filteredStderr) == "ok"

\* syncWithServer from `if (result.error)` to its return: the value returned,
\* the hints logged after "Sync error:" and the text logged after "Sync stderr:"
SyncToolResult(result) ==
    IF result.error # <<>>
    THEN [outcome |-> "fail",
          class |-> IF IsRcloneNotFound(result.error) THEN "ToolNotFound"
                    ELSE "TransferError",
          advisory |-> <<>>]
    ELSE LET filteredStderr == IF result.stderr # <<>>
                               THEN FilteredStderr(result.stderr) ELSE <<>>
         IN  [outcome |-> MirrorOutcome(filteredStderr), class |-> "none",
              advisory |-> filteredStderr]

\* the characters of the fragments or lines of a list
CharLines(lines) ==
    [i \in 1..Len(lines) |->
        IF lines[i] = LocalizedPart THEN LocalizedNotFound ELSE Chars(lines[i])]

ToolInit == SyncInit /\ MainIdle /\ arg \in ToolInputs /\ res = None

\* executeRclone resolved with the result arg
ApplySyncToolResult ==
    /\ res = None
    /\ res' = Some(SyncToolResult([error |-> Concat(CharLines(arg.error)),
                                   stderr |-> Join(CharLines(arg.stderr), <<"\n">>)]))
    /\ UNCHANGED <<arg, notFnVars>>

ToolNext == ApplySyncToolResult

ToolSpec == ToolInit /\ [][ToolNext]_vars

\* ------------------------------------------- the path of the sync tool
\* segments of a configured path
MaxSegments == 3

UpperCase == Chars("ABCDEFGHIJKLMNOPQRSTUVWXYZ")
LowerCase == Chars("abcdefghijklmnopqrstuvwxyz")

\* str.toLowerCase()
ToLowerCase(str) ==
    [i \in 1..Len(str) |->
        IF \E k \in 1..Len(UpperCase) : UpperCase[k] = str[i]
        THEN LowerCase[CHOOSE k \in 1..Len(UpperCase) : UpperCase[k] = str[i]]
        ELSE str[i]]

\* `serverSettings.rclonePath || 'rclone'`
RcloneOrDefault(rclonePath) == IF rclonePath # <<>> THEN rclonePath ELSE Chars("rclone")

\* the last part is compared as it is written
SyncRclonePathCaseSensitive(rclonePath) ==
    LET rcloneExecutable == RcloneOrDefault(rclonePath)
    IN  IF EndsWith(rcloneExecutable, <<"\\">>) \/ EndsWith(rcloneExecutable, <<"/">>)
        THEN rcloneExecutable \o Chars("rclone.exe")
        ELSE IF Includes(rcloneExecutable, <<"\\">>) \/ Includes(rcloneExecutable, <<"/">>)
        THEN IF LastSegment(rcloneExecutable) = Chars("rclone")
             THEN rcloneExecutable \o Chars(".exe")
             ELSE rcloneExecutable
        ELSE rcloneExecutable

\* rcloneExecutable of syncWithServer
SyncRclonePath(rclonePath) ==
    LET rcloneExecutable == RcloneOrDefault(rclonePath)
    IN  IF EndsWith(rcloneExecutable, <<"\\">>) \/ EndsWith(rcloneExecutable, <<"/">>)
        THEN rcloneExecutable \o Chars("rclone.exe")
        ELSE IF Includes(rcloneExecutable, <<"\\">>) \/ Includes(rcloneExecutable, <<"/">>)
        THEN IF ToLowerCase(LastSegment(rcloneExecutable)) = Chars("rclone")
             THEN rcloneExecutable \o Chars(".exe")
             ELSE rcloneExecutable
        ELSE rcloneExecutable

\* rcloneExecutable of checkRcloneAvailability
CheckRclonePath(rclonePath) ==
    LET rcloneExecutable == RcloneOrDefault(rclonePath)
    IN  IF EndsWith(rcloneExecutable, <<"\\">>) \/ EndsWith(rcloneExecutable, <<"/">>)
        THEN rcloneExecutable \o Chars("rclone.exe")
        ELSE IF Includes(rcloneExecutable, <<"\\">>) \/ Includes(rcloneExecutable, <<"/">>)
        THEN IF ToLowerCase(LastSegment(rcloneExecutable)) = Chars("rclone")
             THEN rcloneExecutable \o Chars(".exe")
             ELSE rcloneExecutable
        ELSE rcloneExecutable

\* rcloneExecutable of updateRcloneConfig (main.js): a value without a
\* separator that does not end in ".exe" gets ".exe" appended
ConfigRclonePath(rclonePath) ==
    LET rcloneExecutable == RcloneOrDefault(rclonePath)
    IN  IF EndsWith(rcloneExecutable, <<"\\">>) \/ EndsWith(rcloneExecutable, <<"/">>)
        THEN rcloneExecutable \o Chars("rclone.exe")
        ELSE IF Includes(rcloneExecutable, <<"\\">>) \/ Includes(rcloneExecutable, <<"/">>)
        THEN IF ToLowerCase(LastSegment(rcloneExecutable)) = Chars("rclone")
             THEN rcloneExecutable \o Chars(".exe")
             ELSE rcloneExecutable
        ELSE IF ~EndsWith(rcloneExecutable, Chars(".exe"))
        THEN rcloneExecutable \o Chars(".exe")
        ELSE rcloneExecutable

PathSegments == {"rclone", "RClone", "rclone.exe", "tools", "C:"}

\* values of the rclonePath setting: segments joined by one of the separators,
\* with or without a separator at the end; no segment and no separator is the
\* setting left empty
PathInputs ==
    [segs : SeqsUpTo(PathSegments, MaxSegments), sep : {"/", "\\"}, trailing : BOOLEAN]

\* the characters of the value
PathOf(in) ==
    Join(CharLines(in.segs), <<in.sep>>) \o (IF in.trailing THEN <<in.sep>> ELSE <<>>)

PathInit == SyncInit /\ MainIdle /\ arg \in PathInputs /\ res = None

\* the three places resolve the setting arg
ResolveRclonePath ==
    /\ res = None
    /\ res' = Some([sync   |-> SyncRclonePath(PathOf(arg)),
                    check  |-> CheckRclonePath(PathOf(arg)),
                    config |-> ConfigRclonePath(PathOf(arg))])
    /\ UNCHANGED <<arg, notFnVars>>

PathNext == ResolveRclonePath

PathSpec == PathInit /\ [][PathNext]_vars

\* --------------------------------------- reports of the remote responses
\* outcomes of fetch and response.json() without a response: the promise
\* rejects or the body is not JSON (error: the message of the exception), or the
\* status is not OK
MissingOutcomes ==
    {[kind |-> "reject", error |-> m, returncode |-> None] :
        m \in {"Failed to fetch", "Unexpected end of JSON input", "The operation was aborted"}}
      \cup {[kind |-> "http", error |-> m, returncode |-> None] :
              m \in {"HTTP error! status: 500", "HTTP error! status: 404"}}

\* the no-response line of runCodeOnServer, which a server can send as its error
RunNoResponseLine == "Error: Failed to get run result from server"

\* bodies {success:false, error, returncode} (returncode None: not defined)
NegativeResponses ==
    [kind : {"neg"}, error : {"", "EACCES", "exit status 1", RunNoResponseLine},
     returncode : {None, Some(1)}]

\* a missing outcome and a negative response to the request of one action
ReportInputs ==
    [action : {"checkFolder", "runCode"}, missing : MissingOutcomes,
     negative : NegativeResponses]

\* the line sendToServer writes to the log for an outcome
SendToServerLog(resp) ==
    IF resp.kind \in {"reject", "http"}
    THEN <<Chars("Error communicating with server: ") \o Chars(resp.error)>>
    ELSE <<>>

\* a missing response is reported like a server that failed without a reason
CheckFolderReportConflated(checkResult) ==
    IF checkResult.kind = "ok"
    THEN <<Chars("Server folder ready: ")>>
    ELSE <<Chars("Error preparing server folder: ") \o Chars(checkResult.error)>>

\* the lines syncWithServer writes to the log for checkResult (folderPath left out)
CheckFolderReport(checkResult) ==
    IF checkResult.kind = "null"
    THEN <<Chars("Error checking folder on server")>>
    ELSE IF checkResult.kind = "ok"
    THEN <<Chars("Server folder ready: ")>>
    ELSE <<Chars("Error preparing server folder: ") \o Chars(checkResult.error)>>

\* the lines runCodeOnServer writes to the log for a runResult that is not a success
RunReport(runResult) ==
    IF runResult.kind = "null"
    THEN <<Chars(RunNoResponseLine)>>
    ELSE <<Chars("\n=== RUN FAILED ===")>>
           \o (IF runResult.error # "" THEN <<Chars("Error:"), Chars(runResult.error)>>
               ELSE <<>>)
           \o (IF runResult.returncode # None THEN <<Chars("Return code: 1")>> ELSE <<>>)

\* the log of a request of `action` whose outcome is resp
ReportOf(action, resp) ==
    SendToServerLog(resp)
      \o (IF action = "checkFolder" THEN CheckFolderReport(SendToServerResult(resp))
          ELSE RunReport(SendToServerResult(resp)))

ReportInit == SyncInit /\ MainIdle /\ arg \in ReportInputs /\ res = None

\* the request ends once without a response and once with the negative one
ReportResponses ==
    /\ res = None
    /\ res' = Some([missing  |-> ReportOf(arg.action, arg.missing),
                    negative |-> ReportOf(arg.action, arg.negative)])
    /\ UNCHANGED <<arg, notFnVars>>

ReportNext == ReportResponses

ReportSpec == ReportInit /\ [][ReportNext]_vars

\* ------------------------------------------------- the runCode request
\* segments of a workspace root
MaxRootSegments == 2
\* segments of the path of a file below its root
MaxRelSegments == 2

\* str.replace(sub, ''), sub a string: the first occurrence is removed
RemoveFirst(str, sub) ==
    LET hits == {i \in 0..(Len(str) - Len(sub)) : SubSeq(str, i + 1, i + Len(sub)) = sub}
    IN  IF hits = {} THEN str
        ELSE SubSeq(str, 1, SetMin(hits))
               \o SubSeq(str, SetMin(hits) + Len(sub) + 1, Len(str))

\* no separator is removed
StripLeadingSepNever(str) == str

\* str.replace(/^[/\\]/, '')
StripLeadingSep(str) == IF str # <<>> /\ IsSep(str[1]) THEN Tail(str) ELSE str

\* const relativeFilePath
RelativeFilePath(filePath, root) == StripLeadingSep(RemoveFirst(filePath, root))

\* the data of the runCode request (content left out)
RunRequest(filePath, root) ==
    [folderName |-> LastSegment(root), filePath |-> RelativeFilePath(filePath, root)]

FileNames == {"w", "a", "m.py"}

\* a workspace root (no segment: the root of the file system), a file below
\* it and the separator of the platform
RunRequestInputs ==
    [root : SeqsUpTo(FileNames, MaxRootSegments),
     rel : SeqsUpTo(FileNames, MaxRelSegments) \ {<<>>},
     sep : {"/", "\\"}]

\* the characters of the root
RootOf(in) == <<in.sep>> \o Join(CharLines(in.root), <<in.sep>>)

\* the characters of the path of the file: path.join of the root and its segments
FileOf(in) ==
    (IF in.root = <<>> THEN <<>> ELSE RootOf(in)) \o <<in.sep>>
      \o Join(CharLines(in.rel), <<in.sep>>)

RunRequestInit == SyncInit /\ MainIdle /\ arg \in RunRequestInputs /\ res = None

\* runCodeOnServer builds the request for the file and the root of arg
BuildRunRequest ==
    /\ res = None
    /\ res' = Some(RunRequest(FileOf(arg), RootOf(arg)))
    /\ UNCHANGED <<arg, notFnVars>>

RunRequestNext == BuildRunRequest

RunRequestSpec == RunRequestInit /\ [][RunRequestNext]_vars

\* ------------------------------------------------- the tree snapshot
\* names of directory entries, in the order readdirSync reports them
EntryNames == <<"a", "b">>

\* path.join(dir, name)
PathJoin(dir, name) == dir \o <<"/">> \o Chars(name)

\* path.basename(dirPath)
Basename(dirPath) == LastSegment(dirPath)

TreeRoot == RootA
\* the paths one and two levels below the root
Level1 == {PathJoin(TreeRoot, EntryNames[i]) : i \in 1..Len(EntryNames)}
Level2 == {PathJoin(d, EntryNames[i]) : d \in Level1, i \in 1..Len(EntryNames)}

\* what is at a path: nothing, a directory, a regular file, or an entry that is
\* neither (a symbolic link, a socket, a FIFO)
EntryKinds == {"none", "dir", "file", "link"}

\* the directory that holds a path
Dirname(p) == SubSeq(p, 1, Len(p) - Len(LastSegment(p)) - 1)

\* file systems: an entry exists only inside a directory, and the directories
\* of the second level are empty
FileSystems ==
    {fs \in [{TreeRoot} \cup Level1 \cup Level2 -> EntryKinds] :
        /\ fs[TreeRoot] # "link"
        /\ \A p \in Level1 \cup Level2 : fs[p] # "none" => fs[Dirname(p)] = "dir"}

\* the kind of the entry at a path
KindAt(fs, p) == IF p \in DOMAIN fs THEN fs[p] ELSE "none"

\* the directories of a file system
DirsOf(fs) == {p \in DOMAIN fs : fs[p] = "dir"}

\* a file system at the time of the call, with what happens during the walk:
\* the directories of `statFails` are listed by readdirSync of their parent,
\* and statSync throws when it reaches them (they have disappeared, or may
\* not be looked up); readdirSync throws on the directories of `unreadable`
TreeInputs ==
    UNION {[fs : {fs}, statFails : {{}} \cup {{d} : d \in DirsOf(fs) \ {TreeRoot}},
            unreadable : {{}} \cup {{d} : d \in DirsOf(fs)}] : fs \in FileSystems}

\* fs.readdirSync(dirPath, {withFileTypes: true}) inside try/catch: the names
\* of the entries, none when it throws
Readdir(dirPath, in) ==
    IF dirPath \in in.unreadable THEN <<>>
    ELSE SelectSeq(EntryNames, LAMBDA n : KindAt(in.fs, PathJoin(dirPath, n)) # "none")

RECURSIVE ReadTree(_, _)
RECURSIVE WalkEntries(_, _, _)

\* the loop of readTree over the entries: the children it pushes
WalkEntries(dirPath, entries, in) ==
    IF entries = <<>> THEN <<>>
    ELSE LET full == PathJoin(dirPath, Head(entries))
         IN  (IF KindAt(in.fs, full) = "dir"
              THEN <<ReadTree(full, in)>>
              ELSE IF KindAt(in.fs, full) = "file"
              THEN <<[name |-> Chars(Head(entries)), path |-> full, type |-> "file"]>>
              ELSE <<>>)
               \o WalkEntries(dirPath, Tail(entries), in)

\* readTree(dirPath)
ReadTree(dirPath, in) ==
    IF dirPath \in in.statFails \/ KindAt(in.fs, dirPath) # "dir" THEN Null
    ELSE [name |-> Basename(dirPath), path |-> dirPath, type |-> "folder",
          children |-> WalkEntries(dirPath, Readdir(dirPath, in), in)]

TreeInit == SyncInit /\ MainIdle /\ arg \in TreeInputs /\ res = None

\* readTree is called on the root
BuildSnapshot ==
    /\ res = None
    /\ res' = Some(ReadTree(TreeRoot, arg))
    /\ UNCHANGED <<arg, notFnVars>>

TreeNext == BuildSnapshot

TreeSpec == TreeInit /\ [][TreeNext]_vars

\* ------------------------------------------------- the change watcher
\* the directory that holds the two workspace roots
TopDir == Dirname(RootA)

\* the directory that can exist below a workspace root
SubDirs == {PathJoin(RootA, EntryNames[1])}

\* every directory of the model
WatchDirs == {TopDir} \cup Roots \cup SubDirs

\* the directories that exist
Existing == {TopDir} \cup Roots \cup dirs

\* readTree(rootPath) on the directories that exist
TreeOf(rootPath) ==
    ReadTree(rootPath, [fs |-> [p \in Existing |-> "dir"], statFails |-> {},
                        unreadable |-> {}])

\* a message or a reply on its way to the window: a message with its tree
Letter(channel, rootPath, tree) ==
    [channel |-> channel, rootPath |-> rootPath, tree |-> tree]

\* the subdirectories of dir, as readdirSync lists them
Subdirectories(dir, existing) ==
    SelectSeq([i \in 1..Len(EntryNames) |-> PathJoin(dir, EntryNames[i])],
              LAMBDA d : d \in existing)

\* a watch handle on dir; it is live while the directory it was made for exists
Handle(dir, live) == [dir |-> dir, live |-> live]

\* the handles on dir that are not closed
HandlesOn(dir, hs) == CopiesIn(Handle(dir, TRUE), hs) + CopiesIn(Handle(dir, FALSE), hs)

\* the handles after w.close() of the handle that the Map holds for each path of `closed`
CloseHandles(closed, hs) ==
    hs (-) SetToBag({h \in BagToSet(hs) :
                       /\ h.dir \in closed
                       /\ h.live \/ ~BagIn(Handle(h.dir, TRUE), hs)})

\* the handles after the directory d was removed
KillHandles(d, hs) ==
    LET n == HandlesOn(d, hs)
        rest == hs (-) [h \in {Handle(d, TRUE)} |-> CopiesIn(Handle(d, TRUE), hs)]
    IN  IF BagIn(Handle(d, TRUE), hs)
        THEN (rest (-) [h \in {Handle(d, FALSE)} |-> CopiesIn(Handle(d, FALSE), hs)])
               (+) [h \in {Handle(d, FALSE)} |-> n]
        ELSE hs

\* the watches while a handler runs: the keys of the Map, the open handles,
\* the paths fs.watch was called on, and whether an exception is on its way out
Watches(ws, hs, created, threw) ==
    [ws |-> ws, hs |-> hs, created |-> created, threw |-> threw]

\* no path counts as armed
AlreadyArmedNever(dir, ws) == FALSE

\* `if (watchers.has(dir)) return`
AlreadyArmed(dir, ws) == dir \in ws

RECURSIVE AttachWatcher(_, _, _, _)
RECURSIVE AttachAll(_, _, _, _)

\* the loop of attachWatcher over the subdirectories
AttachAll(list, st, existing, bad) ==
    IF list = <<>> THEN st
    ELSE AttachAll(Tail(list), AttachWatcher(Head(list), st, existing, bad), existing, bad)

\* attachWatcher(dir); fs.watch throws on the directories of `bad`, and the
\* exception leaves every call on the stack
AttachWatcher(dir, st, existing, bad) ==
    IF st.threw \/ AlreadyArmed(dir, st.ws) THEN st
    ELSE IF dir \in bad THEN [st EXCEPT !.threw = TRUE]
    ELSE AttachAll(Subdirectories(dir, existing),
                   Watches(st.ws \cup {dir}, st.hs (+) SetToBag({Handle(dir, TRUE)}),
                           st.created \cup {dir}, FALSE),
                   existing, bad)

\* no watcher is closed
KeptWatchersAll(root, ws) == ws

\* the watchers that the loop of watchFolderRecursive(root) leaves open
KeptWatchers(root, ws) == {p \in ws : ~StartsWith(p, root)}

\* watchFolderRecursive(root)
WatchFolderRecursive(root, ws, hs, existing, bad) ==
    AttachWatcher(root,
                  Watches(KeptWatchers(root, ws),
                          CloseHandles(ws \ KeptWatchers(root, ws), hs), {}, FALSE),
                  existing, bad)

\* the events that are still delivered: those of the watches left open
KeptEvents(kept) == {e \in events : Dirname(e) \in kept}

\* the directories fs.watch can throw on during one handler: none or one
WatchFailures == {{}} \cup {{d} : d \in WatchDirs}

WatchInit ==
    /\ SyncInit /\ FnIdle /\ StoreIdle /\ OpenIdle
    /\ mainRoot = NoRoot /\ watchers = {} /\ handles = EmptyBag /\ lastOp = NoOp
    /\ events = {} /\ sent = NoMessage
    /\ dirs \in SUBSET SubDirs

\* "Open Folder..." of the menu: pickAndOpenWorkspace, openWorkspace(folderPath)
OpenWorkspace(folderPath, bad) ==
    /\ folderPath \in Existing
    /\ bad \subseteq {d \in Existing : StartsWith(d, folderPath)}
    /\ LET st == WatchFolderRecursive(folderPath, watchers, handles, Existing, bad)
       IN  /\ mainRoot' = folderPath
           /\ sent' = Message("workspace-opened", folderPath)
           /\ watchers' = st.ws
           /\ handles' = st.hs
           /\ lastOp' = Op("open", folderPath, st.threw,
                           watchers \ KeptWatchers(folderPath, watchers), st.created)
    /\ events' = KeptEvents(KeptWatchers(folderPath, watchers))
    /\ UNCHANGED <<dirs, notWatchVars>>

\* the handler of 'pick-workspace' when the dialog returned a folder: the
\* folder and its tree are the reply, and there is none when
\* watchFolderRecursive threw
PickWorkspace(folder, bad) ==
    /\ folder \in Existing
    /\ bad \subseteq {d \in Existing : StartsWith(d, folder)}
    /\ LET st == WatchFolderRecursive(folder, watchers, handles, Existing, bad)
       IN  /\ watchers' = st.ws
           /\ handles' = st.hs
           /\ lastOp' = Op("pick", folder, st.threw,
                           watchers \ KeptWatchers(folder, watchers), st.created)
           /\ mainRoot' = IF st.threw THEN mainRoot ELSE folder
           /\ sent' = IF st.threw THEN NoMessage
                      ELSE Message("pick-workspace", folder)
    /\ events' = KeptEvents(KeptWatchers(folder, watchers))
    /\ UNCHANGED <<dirs, notWatchVars>>

\* the most changes whose callback is pending at one time
MaxPending == 1

\* the events after a change of the entry d: the live watch on its parent,
\* if any, is told
Reported(d) == IF BagIn(Handle(Dirname(d), TRUE), handles) THEN events \cup {d} ELSE events

\* a directory is created
Mkdir(d) ==
    /\ d \in SubDirs \ dirs
    /\ Cardinality(Reported(d)) <= MaxPending
    /\ dirs' = dirs \cup {d}
    /\ events' = Reported(d)
    /\ UNCHANGED <<mainRoot, watchers, handles, lastOp, sent, notWatchVars>>

\* a directory is removed: a watch on it reports nothing from now on
Rmdir(d) ==
    /\ d \in dirs
    /\ Cardinality(Reported(d)) <= MaxPending
    /\ dirs' = dirs \ {d}
    /\ handles' = KillHandles(d, handles)
    /\ events' = Reported(d)
    /\ UNCHANGED <<mainRoot, watchers, lastOp, sent, notWatchVars>>

\* something changes inside a directory that exists, or its attributes do
Touch(d) ==
    /\ d \in Roots \cup dirs
    /\ Cardinality(Reported(d)) <= MaxPending
    /\ events' = Reported(d)
    /\ events' # events
    /\ UNCHANGED <<mainRoot, dirs, watchers, handles, lastOp, sent, notWatchVars>>

\* the callback of the watch on Dirname(subPath) for the change of subPath:
\* the tree is rebuilt and sent, and a watch is attached to a new subdirectory
WatchCallback(subPath, bad) ==
    /\ subPath \in events
    /\ bad \subseteq {subPath} \cap Existing
    /\ events' = events \ {subPath}
    /\ LET rootPath == IF mainRoot # NoRoot THEN mainRoot ELSE Dirname(subPath)
           st == IF subPath \in Existing
                 THEN AttachWatcher(subPath, Watches(watchers, handles, {}, FALSE),
                                    Existing, bad)
                 ELSE Watches(watchers, handles, {}, FALSE)
       IN  /\ sent' = Message("workspace-refresh", rootPath)
           /\ watchers' = st.ws
           /\ handles' = st.hs
           /\ lastOp' = Op("callback", subPath, st.threw, {}, st.created)
    /\ UNCHANGED <<mainRoot, dirs, notWatchVars>>

WatchNext ==
    \/ \E folderPath \in WatchDirs, bad \in WatchFailures :
          OpenWorkspace(folderPath, bad) /\ UNCHANGED <<openVars, explorerVars>>
    \/ \E folder \in WatchDirs, bad \in WatchFailures :
          PickWorkspace(folder, bad) /\ UNCHANGED <<openVars, explorerVars>>
    \/ \E d \in SubDirs : Mkdir(d) /\ UNCHANGED <<openVars, explorerVars>>
    \/ \E d \in SubDirs : Rmdir(d) /\ UNCHANGED <<openVars, explorerVars>>
    \/ \E d \in Roots \cup SubDirs : Touch(d) /\ UNCHANGED <<openVars, explorerVars>>
    \/ \E subPath \in Roots \cup SubDirs, bad \in WatchFailures :
          WatchCallback(subPath, bad) /\ UNCHANGED <<openVars, explorerVars>>

WatchSpec == WatchInit /\ [][WatchNext]_vars

\* ------------------------------------------------- the settings store
\* the characters of a list as one string
RECURSIVE Text(_)
Text(chars) == IF chars = <<>> THEN "" ELSE Head(chars) \o Text(Tail(chars))

DigitChar(d) == SubSeq("0123456789", d + 1, d + 1)

\* the decimal digits of a natural number
RECURSIVE Digits(_)
Digits(n) == IF n < 10 THEN <<DigitChar(n)>> ELSE Digits(n \div 10) \o <<DigitChar(n % 10)>>

\* JSON.stringify of an integer
NumberText(n) == IF n < 0 THEN <<"-">> \o Digits(0 - n) ELSE Digits(n)

\* no character is escaped
EscapeCharNever(ch) == <<ch>>

\* a character as JSON.stringify writes it inside quotes: a backslash goes
\* before a quote and before a backslash
EscapeChar(ch) == IF ch \in {"\"", "\\"} THEN <<"\\", ch>> ELSE <<ch>>

\* the characters of a string as JSON.stringify writes them inside quotes
RECURSIVE Escape(_)
Escape(chars) ==
    IF chars = <<>> THEN <<>> ELSE EscapeChar(Head(chars)) \o Escape(Tail(chars))

\* JSON.stringify of a string
Quote(str) == <<"\"">> \o Escape(Chars(str)) \o <<"\"">>

\* the members JSON.stringify writes for a settings object, in the order of
\* its properties; a property that is undefined is left out
Members(settings) ==
    << <<"ip", Quote(settings.ip)>>, <<"user", Quote(settings.user)>>,
       <<"pass", Quote(settings.pass)>>, <<"rclonePath", Quote(settings.rclonePath)>> >>
      \o (IF settings.syncInterval = None THEN <<>>
          ELSE << <<"syncInterval", NumberText(settings.syncInterval[1])>> >>)

\* JSON.stringify(settings, null, 2)
Stringify(settings) ==
    LET members == Members(settings)
        line(i) == Chars("  ") \o Quote(members[i][1]) \o Chars(": ") \o members[i][2]
                     \o (IF i < Len(members) THEN <<",">> ELSE <<>>)
    IN  Join(<< <<"{">> >> \o [i \in 1..Len(members) |-> line(i)] \o << <<"}">> >>,
             <<"\n">>)

\* the string that ends at the closing quote which is the last character of
\* chars, the text after an opening quote; None when there is no such quote
RECURSIVE ScanString(_, _)
ScanString(chars, acc) ==
    IF chars = <<>> THEN None
    ELSE IF Head(chars) = "\"" THEN (IF Len(chars) = 1 THEN Some(acc) ELSE None)
    ELSE IF Head(chars) = "\\"
         THEN (IF Len(chars) < 2 THEN None
               ELSE ScanString(SubSeq(chars, 3, Len(chars)), Append(acc, chars[2])))
    ELSE ScanString(Tail(chars), Append(acc, Head(chars)))

\* a JSON value: a string or an integer; None when it is neither
ParseValue(val) ==
    IF val = <<>> THEN None
    ELSE IF Head(val) = "\"" THEN
         (LET str == ScanString(Tail(val), <<>>)
          IN  IF str = None THEN None ELSE Some([str |-> Some(Text(str[1])), num |-> None]))
    ELSE LET body == IF Head(val) = "-" THEN Tail(val) ELSE val
         IN  IF body # <<>> /\ \A i \in 1..Len(body) : IsDigit(body[i])
             THEN Some([str |-> None,
                        num |-> Some(IF Head(val) = "-" THEN 0 - DigitsValue(body, 0)
                                     ELSE DigitsValue(body, 0))])
             ELSE None

\* one member `"key": value` of an object, with the comma that may follow it
ParseMember(line) ==
    LET body == IF line # <<>> /\ line[Len(line)] = ","
                THEN SubSeq(line, 1, Len(line) - 1) ELSE line
        rest == SubSeq(body, 4, Len(body))
        ends == {i \in 1..Len(rest) : rest[i] = "\""}
        after == SubSeq(rest, SetMin(ends) + 1, Len(rest))
    IN  IF ~StartsWith(body, <<" ", " ", "\"">>) \/ ends = {} THEN None
        ELSE IF ~StartsWith(after, <<":", " ">>) THEN None
        ELSE LET value == ParseValue(SubSeq(after, 3, Len(after)))
             IN  IF value = None THEN None
                 ELSE Some([key |-> Text(SubSeq(rest, 1, SetMin(ends) - 1)),
                            value |-> value[1]])

\* JSON.parse of the text of a settings file: None when it throws
Parse(text) ==
    LET lines == Split(text, "\n")
        members == [i \in 1..(Len(lines) - 2) |-> ParseMember(lines[i + 1])]
        has(k) == \E i \in 1..Len(members) : members[i][1].key = k
        get(k) == members[CHOOSE i \in 1..Len(members) : members[i][1].key = k][1].value
        string(k) == IF has(k) /\ get(k).str # None THEN get(k).str[1] ELSE ""
    IN  IF text = Chars("{}") THEN Some(EmptySettings)
        ELSE IF Len(lines) < 3 \/ lines[1] # <<"{">> \/ lines[Len(lines)] # <<"}">>
        THEN None
        ELSE IF \E i \in 1..Len(members) : members[i] = None THEN None
        ELSE Some([ip |-> string("ip"), user |-> string("user"), pass |-> string("pass"),
                   rclonePath |-> string("rclonePath"),
                   syncInterval |-> IF has("syncInterval") THEN get("syncInterval").num
                                    ELSE None])

\* the settings of the bundled server-settings.json
DefaultSettings ==
    [ip |-> "10.0.0.1", user |-> "dev", pass |-> "", rclonePath |-> "",
     syncInterval |-> Some(30)]

\* settings handed to writeServerSettings: those the server-save handler
\* builds, one of them with a quote in the password and a Windows path
WrittenSettings ==
    {SaveConfig(in[1], in[2], in[3]) : in \in SaveInputs}
      \cup {[ip |-> "10.0.0.2", user |-> "ops", pass |-> "a\"b", rclonePath |-> "C:\\rc\\",
             syncInterval |-> Some(-5)]}

\* how updateRcloneConfig(settings) can end: it resolves false without a
\* call of the tool, path.join(process.env.APPDATA, 'rclone') throws inside
\* the executor, mkdirSync throws, or the tool exits with or without an error
ProvisionOutcomes(settings) ==
    IF settings.ip = "" \/ settings.user = "" THEN {"skipped"}
    ELSE IF ~appData THEN {"rejected"}
    ELSE {"mkdirFailed", "toolFailed", "created"}

\* the profile after `rclone config create cloud-compiler-sftp sftp host= user= pass=`
ProfileOf(settings) == Some([host |-> settings.ip, user |-> settings.user, pass |-> settings.pass])

\* the handler that returned last, in brief
LastBrief == Brief(lastStore.op, lastStore.settings, lastStore.result, lastStore.ok)

StoreInit ==
    /\ SyncInit /\ FnIdle /\ WatchIdle /\ OpenIdle
    /\ persisted \in {None, Some(<<>>), Some(Stringify(SaveConfig("10.0.0.1", "dev", <<"6", "0">>)))}
    /\ bundled \in {None, Some(Stringify(DefaultSettings))}
    /\ appData \in BOOLEAN
    /\ profile = None /\ pending = NoPending /\ lastStore = NoStore /\ saveReply = FALSE

\* the handler returns without a call of updateRcloneConfig
StoreReturn(p, result, ok) ==
    /\ lastStore' = Done(p, "none", result, ok, LastBrief)
    /\ pending' = pending

\* readServerSettings() up to `await updateRcloneConfig`; writeOk tells whether
\* writeFileSync of the default succeeds
ReadServerSettings(writeOk) ==
    /\ pending = NoPending
    /\ IF persisted # None
       THEN /\ persisted' = persisted
            /\ IF Parse(persisted[1]) = None
               THEN StoreReturn(Pending("read", "persisted", EmptySettings, FALSE), EmptySettings, FALSE)
               ELSE /\ pending' = Pending("read", "persisted", Parse(persisted[1])[1], FALSE)
                    /\ lastStore' = lastStore
       ELSE IF bundled # None
       THEN IF Parse(bundled[1]) = None \/ ~writeOk
            THEN /\ persisted' = persisted
                 /\ StoreReturn(Pending("read", "bundled", EmptySettings, FALSE), EmptySettings, FALSE)
            ELSE /\ persisted' = bundled
                 /\ pending' = Pending("read", "bundled", Parse(bundled[1])[1], TRUE)
                 /\ lastStore' = lastStore
       ELSE /\ persisted' = persisted
            /\ StoreReturn(Pending("read", "nothing", EmptySettings, FALSE), EmptySettings, FALSE)
    /\ UNCHANGED <<bundled, appData, profile, notStoreVars>>

\* writeServerSettings(settings) up to `await updateRcloneConfig`; writeOk
\* tells whether writeFileSync succeeds
WriteServerSettings(settings, writeOk) ==
    /\ pending = NoPending
    /\ IF writeOk
       THEN /\ persisted' = Some(Stringify(settings))
            /\ pending' = Pending("write", "argument", settings, TRUE)
            /\ lastStore' = lastStore
       ELSE /\ persisted' = persisted
            /\ StoreReturn(Pending("write", "argument", settings, FALSE), EmptySettings, FALSE)
    /\ UNCHANGED <<bundled, appData, profile, notStoreVars>>

\* updateRcloneConfig settles and the handler that awaits it returns: the
\* settings or {} from readServerSettings, true or false from writeServerSettings
UpdateRcloneConfig(outcome) ==
    /\ pending # NoPending
    /\ outcome \in ProvisionOutcomes(pending.settings)
    /\ profile' = IF outcome = "created" THEN ProfileOf(pending.settings) ELSE profile
    /\ lastStore' = Done(pending, outcome,
                         IF pending.op = "read" /\ outcome # "rejected"
                         THEN pending.settings ELSE EmptySettings,
                         pending.op = "write" /\ outcome # "rejected",
                         LastBrief)
    /\ pending' = NoPending
    /\ UNCHANGED <<persisted, bundled, appData, notStoreVars>>

\* the ways updateRcloneConfig ends
Provisionings == {"skipped", "rejected", "mkdirFailed", "toolFailed", "created"}

StoreNext ==
    \/ \E writeOk \in BOOLEAN : ReadServerSettings(writeOk) /\ UNCHANGED saveReply
    \/ \E settings \in WrittenSettings, writeOk \in BOOLEAN :
          WriteServerSettings(settings, writeOk) /\ UNCHANGED saveReply
    \/ \E outcome \in Provisionings : UpdateRcloneConfig(outcome) /\ UNCHANGED saveReply

StoreSpec == StoreInit /\ [][StoreNext]_vars

\* --------------------------------------------------- a settings save
\* the window and the main process during a save of the server settings
SaveInit ==
    /\ SyncInit /\ FnIdle /\ WatchIdle /\ OpenIdle
    /\ persisted = None /\ bundled = None /\ appData \in BOOLEAN
    /\ profile = None /\ pending = NoPending /\ lastStore = NoStore /\ saveReply = FALSE

\* the handler of 'write-server-settings' runs writeServerSettings(config) up
\* to its await, or to its return when writeFileSync throws
WriteSettingsRequest(writeOk) ==
    /\ savePc = "writing" /\ ~saveReply
    /\ WriteServerSettings(saveConfig, writeOk)
    /\ saveReply' = ~writeOk

\* updateRcloneConfig settles and the handler of 'write-server-settings' returns
WriteSettingsReturn(outcome) ==
    /\ UpdateRcloneConfig(outcome)
    /\ saveReply' = TRUE

\* the result arrives at the server-save handler, which goes on after
\* `await window.api.writeServerSettings(config)`
ServerSaveReply ==
    /\ saveReply
    /\ saveReply' = FALSE
    /\ ServerSaveApplied
    /\ UNCHANGED <<persisted, bundled, appData, profile, pending, lastStore,
                   fnVars, watchVars, openVars, explorerVars, tabVars>>

SaveNext ==
    \/ \E in \in SaveInputs : ServerSaveClick(in[1], in[2], in[3])
    \/ \E writeOk \in BOOLEAN : WriteSettingsRequest(writeOk)
    \/ \E outcome \in Provisionings : WriteSettingsReturn(outcome)
    \/ ServerSaveReply
    \/ ServerSaveSync
    \/ ApplyWorkspace(RootA)
    \/ \E c \in BagToSet(calls) : CheckFolderResponse(c, [kind |-> "reject", error |-> ""])

SaveSpec == SaveInit /\ [][SaveNext]_vars

\* --------------------------------------------------- a workspace open
\* messages and replies the window has not handled, at most
MaxInbox == 1

\* the main process and the window during the open of a workspace
OpenInit ==
    /\ SyncInit /\ FnIdle /\ StoreIdle /\ OpenIdle
    /\ mainRoot = NoRoot /\ watchers = {} /\ handles = EmptyBag /\ lastOp = NoOp
    /\ events = {} /\ sent = NoMessage
    /\ dirs \in SUBSET SubDirs

\* "Open Folder..." of the menu, openWorkspace(folderPath) up to and with
\* win.webContents.send('workspace-opened', ...): the window, another
\* process, can handle the message while openWorkspace goes on
MenuOpenSend(folderPath) ==
    /\ armPending = NoRoot
    /\ Len(inbox) < MaxInbox
    /\ folderPath \in Existing
    /\ mainRoot' = folderPath
    /\ sent' = Message("workspace-opened", folderPath)
    /\ inbox' = Append(inbox, Letter("workspace-opened", folderPath, TreeOf(folderPath)))
    /\ armPending' = folderPath
    /\ UNCHANGED <<dirs, watchers, handles, lastOp, events, notWatchVars, explorerVars>>

\* openWorkspace(folderPath) from watchFolderRecursive(folderPath) on
MenuOpenWatch(bad) ==
    /\ armPending # NoRoot
    /\ bad \subseteq {d \in Existing : StartsWith(d, armPending)}
    /\ LET st == WatchFolderRecursive(armPending, watchers, handles, Existing, bad)
       IN  /\ watchers' = st.ws
           /\ handles' = st.hs
           /\ lastOp' = Op("open", armPending, st.threw,
                           watchers \ KeptWatchers(armPending, watchers), st.created)
    /\ events' = KeptEvents(KeptWatchers(armPending, watchers))
    /\ armPending' = NoRoot
    /\ UNCHANGED <<mainRoot, dirs, sent, inbox, notWatchVars, explorerVars>>

\* the open-folder button: window.api.pickWorkspace() and the handler of
\* 'pick-workspace', whose return value is the reply to the window
ButtonPick(folder, bad) ==
    /\ armPending = NoRoot
    /\ Len(inbox) < MaxInbox
    /\ PickWorkspace(folder, bad)
    /\ inbox' = IF sent' = NoMessage THEN inbox
                ELSE Append(inbox, Letter("pick-workspace", folder, TreeOf(folder)))
    /\ UNCHANGED <<armPending, explorerVars>>

\* the window handles 'workspace-opened' or the reply of pickWorkspace:
\* applyWorkspace(rootPath, tree)
WorkspaceArrives ==
    /\ inbox # <<>>
    /\ Head(inbox).channel \in {"workspace-opened", "pick-workspace"}
    /\ inbox' = Tail(inbox)
    /\ ApplyWorkspaceApplied(Head(inbox).rootPath)
    /\ ShowWorkspace(Head(inbox).rootPath, Head(inbox).tree)
    /\ UNCHANGED <<fnVars, watchVars, storeVars, armPending, refreshing, tabVars>>

OpenNext ==
    \/ LoadServerSettings(DefaultSettings)
    \/ \E folderPath \in Roots : MenuOpenSend(folderPath)
    \/ \E bad \in WatchFailures : MenuOpenWatch(bad)
    \/ \E folder \in Roots, bad \in WatchFailures : ButtonPick(folder, bad)
    \/ WorkspaceArrives
    \/ \E c \in BagToSet(calls) : CheckFolderResponse(c, [kind |-> "reject", error |-> ""])

OpenSpec == OpenInit /\ [][OpenNext]_vars

\* ------------------------------------------------------- the explorer
\* the main process and the explorer of the window, with the server settings
\* left empty: syncWithServer returns at its first test
ExplorerInit == OpenInit

\* the folders the tree on display has a row for
ShownFolders(tree) ==
    IF tree = Null THEN {}
    ELSE {tree.path} \cup {tree.children[i].path : i \in 1..Len(tree.children)}

\* row.onclick of the folder `path`: it is expanded or collapsed
ToggleFolder(path) ==
    /\ ~refreshing
    /\ path \in ShownFolders(rendered)
    /\ expandedPaths' = IF path \in expandedPaths THEN expandedPaths \ {path}
                        ELSE expandedPaths \cup {path}
    /\ UNCHANGED <<rendered, refreshing, syncVars, mainVars, tabVars>>

\* promptCreate(parentDir, 'folder') from Enter to the dialog of its refresh:
\* the handler of 'create-folder' makes the directory, then
\* `window.api.pickWorkspace(workspaceRoot)`, which passes no argument on,
\* makes the handler of 'pick-workspace' open the folder dialog
PromptCreate(d) ==
    /\ ~refreshing /\ armPending = NoRoot
    /\ Dirname(d) \in ShownFolders(rendered)
    /\ Mkdir(d)
    /\ refreshing' = TRUE
    /\ UNCHANGED <<expandedPaths, rendered, openVars>>

\* promptDelete(entryPath, 'folder') from the confirmation to the dialog of
\* its refresh: the handler of 'delete-entry' removes the directory
PromptDelete(d) ==
    /\ ~refreshing /\ armPending = NoRoot
    /\ rendered # Null
    /\ d \in ShownFolders(rendered) \ {rendered.path}
    /\ Rmdir(d)
    /\ refreshing' = TRUE
    /\ UNCHANGED <<expandedPaths, rendered, openVars>>

\* the folder dialog of a refresh returns a folder: the rest of the handler
\* of 'pick-workspace', whose return value is the reply to the window
RefreshPick(folder, bad) ==
    /\ refreshing
    /\ Len(inbox) < MaxInbox
    /\ PickWorkspace(folder, bad)
    /\ refreshing' = FALSE
    /\ inbox' = IF sent' = NoMessage THEN inbox
                ELSE Append(inbox, Letter("refresh-reply", folder, TreeOf(folder)))
    /\ UNCHANGED <<armPending, expandedPaths, rendered>>

\* the folder dialog of a refresh is cancelled: the reply is null, and
\* `if (res && ...)` skips renderTree
RefreshCancel ==
    /\ refreshing
    /\ refreshing' = FALSE
    /\ UNCHANGED <<expandedPaths, rendered, syncVars, mainVars, tabVars>>

\* the window after `await window.api.pickWorkspace(...)` of a refresh:
\* `if (res && res.rootPath === workspaceRoot) renderTree(res.tree)`
RefreshReplyArrives ==
    /\ inbox # <<>>
    /\ Head(inbox).channel = "refresh-reply"
    /\ inbox' = Tail(inbox)
    /\ IF Head(inbox).rootPath = workspaceRoot
       THEN RenderTree(Head(inbox).tree) ELSE UNCHANGED rendered
    /\ UNCHANGED <<expandedPaths, refreshing, syncVars, fnVars, watchVars, storeVars,
                   armPending, tabVars>>

\* the callback of a watch, with its 'workspace-refresh' on its way to the window
RefreshSend(subPath, bad) ==
    /\ Len(inbox) < MaxInbox
    /\ WatchCallback(subPath, bad)
    /\ inbox' = Append(inbox, Letter("workspace-refresh", sent'.rootPath,
                                     TreeOf(sent'.rootPath)))
    /\ UNCHANGED <<armPending, explorerVars>>

\* a refresh is for the open root whatever its rootPath
IsOpenRootAlways(rootPath) == TRUE

\* `rootPath === workspaceRoot`
IsOpenRoot(rootPath) == rootPath = workspaceRoot

\* the handler of onWorkspaceRefresh:
\* `if (rootPath === workspaceRoot) renderTree(tree)`
WorkspaceRefreshArrives ==
    /\ inbox # <<>>
    /\ Head(inbox).channel = "workspace-refresh"
    /\ inbox' = Tail(inbox)
    /\ IF IsOpenRoot(Head(inbox).rootPath)
       THEN RenderTree(Head(inbox).tree) ELSE UNCHANGED rendered
    /\ UNCHANGED <<expandedPaths, refreshing, syncVars, fnVars, watchVars, storeVars,
                   armPending, tabVars>>

ExplorerNext ==
    \/ \E folderPath \in Roots : ~refreshing /\ MenuOpenSend(folderPath)
    \/ MenuOpenWatch({})
    \/ \E folder \in Roots : ~refreshing /\ ButtonPick(folder, {})
    \/ WorkspaceArrives
    \/ \E path \in Roots \cup SubDirs : ToggleFolder(path)
    \/ \E d \in SubDirs : PromptCreate(d)
    \/ \E d \in SubDirs : PromptDelete(d)
    \/ \E folder \in Roots, bad \in WatchFailures : RefreshPick(folder, bad)
    \/ RefreshCancel
    \/ RefreshReplyArrives
    \/ \E d \in Roots \cup SubDirs : Touch(d) /\ UNCHANGED <<openVars, explorerVars>>
    \/ \E subPath \in Roots \cup SubDirs, bad \in WatchFailures : RefreshSend(subPath, bad)
    \/ WorkspaceRefreshArrives

ExplorerSpec == ExplorerInit /\ [][ExplorerNext]_vars

\* ------------------------------------------------------------ the tabs
\* tabs open at one time, with the openFile calls that are waiting for their file
MaxTabs == 2
\* handlers of the tabs suspended at an await at one time
MaxTabCalls == 2

\* a file of the workspace root and a file of its subdirectory
TabFiles == {PathJoin(RootA, "m"), PathJoin(PathJoin(RootA, EntryNames[1]), "m")}

\* the entries that are renamed, each with the new name typed
Renames ==
    {<<PathJoin(RootA, "m"), <<"n">> >>,
     <<PathJoin(RootA, EntryNames[1]), Chars(EntryNames[2])>>}

\* texts of a file or of a model
Contents == {"x", "y"}

\* an element of `tabs`: model is the uri of its text model, synced the text
\* that the editor read from or wrote to the file of the tab last, and saving
\* the content that a saveActiveTab suspended at its await has sent for the tab
Tab(path, model, dirty, synced, saving) ==
    [path |-> path, model |-> model, dirty |-> dirty, synced |-> synced, saving |-> saving]

\* a text model of the editor
Model(uri, content) == [uri |-> uri, content |-> content]

\* openFile suspended at `await window.api.readFile(filePath)`, or the handler
\* of promptRename at `await window.api.renameEntry({oldPath, newName})`:
\* the path, the new name, and what the handler of 'rename-entry' did once
\* the main process has run it
TabCall(op, path, newName, done) ==
    [op |-> op, path |-> path, newName |-> newName, done |-> done]

\* model.getValue()
GetValue(uri) == (CHOOSE m \in models : m.uri = uri).content

\* the index of the first tab whose field is value: tabs.findIndex, 0 for -1
FindIndex(list, field, value) ==
    LET hits == {i \in 1..Len(list) : list[i][field] = value}
    IN  IF hits = {} THEN 0 ELSE SetMin(hits)

\* the handler of onDidChangeContent of the model `uri`
DidChangeContent(list, uri) ==
    LET i == FindIndex(list, "model", uri)
    IN  IF i # 0 /\ ~list[i].dirty THEN [list EXCEPT ![i].dirty = TRUE] ELSE list

\* the openFile calls that have not pushed their tab yet
OpensPending ==
    LET opens == {c \in BagToSet(tabCalls) : c.op = "open"}
    IN  BagCardinality([c \in opens |-> tabCalls[c]])

TabInit == SyncInit /\ FnIdle /\ MainIdle

\* openFile(filePath, name) up to `await window.api.readFile(filePath)`, or to
\* its return when a tab has the path
OpenFile(filePath) ==
    /\ ~refreshing
    /\ IF FindIndex(tabs, "path", filePath) # 0
       THEN /\ activeTabPath' = filePath
            /\ UNCHANGED tabCalls
       ELSE /\ Len(tabs) + OpensPending < MaxTabs
            /\ BagCardinality(tabCalls) < MaxTabCalls
            /\ tabCalls' = tabCalls (+) SetToBag({TabCall("open", filePath, <<>>, "sent")})
            /\ UNCHANGED activeTabPath
    /\ UNCHANGED <<tabs, models, syncVars, mainVars, explorerVars>>

\* openFile after `await window.api.readFile(filePath)`, which returned
\* content: the model is made or set, the tab is pushed and activated.  When
\* readFile rejected (ok is false) the call ends there
ReadFileReturn(c, ok, content) ==
    /\ BagIn(c, tabCalls)
    /\ c.op = "open"
    /\ tabCalls' = tabCalls (-) SetToBag({c})
    /\ IF ~ok
       THEN UNCHANGED <<tabs, activeTabPath, models>>
       ELSE LET known == \E m \in models : m.uri = c.path
                changed == IF known THEN DidChangeContent(tabs, c.path) ELSE tabs
            IN  /\ models' = {m \in models : m.uri # c.path} \cup {Model(c.path, content)}
                /\ tabs' = Append(changed, Tab(c.path, c.path, FALSE, content, None))
                /\ activeTabPath' = c.path
    /\ UNCHANGED <<syncVars, mainVars, explorerVars>>

\* el.onclick of a tab: activateTab(filePath)
ActivateTab(filePath) ==
    /\ ~refreshing
    /\ FindIndex(tabs, "path", filePath) # 0
    /\ activeTabPath' = filePath
    /\ UNCHANGED <<tabs, models, tabCalls, syncVars, mainVars, explorerVars>>

\* no tab becomes the active one
NeighbourNone(rest, idx) == NoRoot

\* `const next = tabs[idx] || tabs[idx - 1]; activeTabPath = next ? next.path : null`
\* (idx counts from 1 here)
Neighbour(rest, idx) ==
    IF idx <= Len(rest) THEN rest[idx].path
    ELSE IF idx - 1 >= 1 THEN rest[idx - 1].path
    ELSE NoRoot

\* closeTab(filePath); ok is the answer to the question asked for a dirty tab
CloseTab(filePath, ok) ==
    /\ ~refreshing
    /\ LET idx == FindIndex(tabs, "path", filePath)
           rest == SubSeq(tabs, 1, idx - 1) \o SubSeq(tabs, idx + 1, Len(tabs))
       IN  /\ idx # 0
           /\ tabs[idx].dirty => ok
           /\ tabs' = rest
           /\ activeTabPath' = IF activeTabPath = filePath THEN Neighbour(rest, idx)
                                ELSE activeTabPath
    /\ UNCHANGED <<models, tabCalls, syncVars, mainVars, explorerVars>>

\* the user changes the text in the editor, which shows the model of the
\* active tab
EditText(content) ==
    /\ ~refreshing
    /\ LET i == FindIndex(tabs, "path", activeTabPath)
       IN  /\ i # 0
           /\ GetValue(tabs[i].model) # content
           /\ models' = {m \in models : m.uri # tabs[i].model}
                           \cup {Model(tabs[i].model, content)}
           /\ tabs' = DidChangeContent(tabs, tabs[i].model)
    /\ UNCHANGED <<activeTabPath, tabCalls, syncVars, mainVars, explorerVars>>

\* saveActiveTab() up to `await window.api.saveFile(...)`, for a tab no save
\* is under way for
SaveActiveTab ==
    /\ ~refreshing
    /\ LET i == FindIndex(tabs, "path", activeTabPath)
       IN  /\ i # 0
           /\ tabs[i].saving = None
           /\ tabs' = [tabs EXCEPT ![i].saving = Some(GetValue(tabs[i].model))]
    /\ UNCHANGED <<activeTabPath, models, tabCalls, syncVars, mainVars, explorerVars>>

\* saveActiveTab after `await window.api.saveFile(...)` for the tab at index i:
\* `tab.dirty = false`, or nothing when saveFile rejected (ok is false)
SaveFileReturn(i, ok) ==
    /\ i \in 1..Len(tabs)
    /\ tabs[i].saving # None
    /\ tabs' = IF ok THEN [tabs EXCEPT ![i].dirty = FALSE, ![i].synced = tabs[i].saving[1],
                                       ![i].saving = None]
               ELSE [tabs EXCEPT ![i].saving = None]
    /\ UNCHANGED <<activeTabPath, models, tabCalls, syncVars, mainVars, explorerVars>>

\* promptRename(oldPath) from Enter to `await window.api.renameEntry(...)`
PromptRename(oldPath, newName) ==
    /\ ~refreshing
    /\ BagCardinality(tabCalls) < MaxTabCalls
    /\ newName # LastSegment(oldPath)
    /\ tabCalls' = tabCalls (+) SetToBag({TabCall("rename", oldPath, newName, "sent")})
    /\ UNCHANGED <<tabs, activeTabPath, models, syncVars, mainVars, explorerVars>>

\* the handler of 'rename-entry' in the main process: renameSync returns
\* or throws
RenameEntry(c, ok) ==
    /\ BagIn(c, tabCalls)
    /\ c.op = "rename" /\ c.done = "sent"
    /\ tabCalls' = (tabCalls (-) SetToBag({c})) (+)
                     SetToBag({[c EXCEPT !.done = IF ok THEN "ok" ELSE "threw"]})
    /\ UNCHANGED <<tabs, activeTabPath, models, syncVars, mainVars, explorerVars>>

\* the paths of the tabs after a rename: `if (tab.path === oldPath)`
RenamedTabs(list, oldPath, newPath) ==
    [i \in 1..Len(list) |->
        IF list[i].path = oldPath THEN [list[i] EXCEPT !.path = newPath] ELSE list[i]]

\* promptRename after `await window.api.renameEntry(...)`, up to the folder
\* dialog of its refresh
RenameReturn(c) ==
    /\ BagIn(c, tabCalls)
    /\ c.op = "rename" /\ c.done # "sent"
    /\ ~refreshing
    /\ tabCalls' = tabCalls (-) SetToBag({c})
    /\ LET newPath == Dirname(c.path) \o <<"/">> \o c.newName
       IN  IF c.done = "ok"
           THEN /\ tabs' = RenamedTabs(tabs, c.path, newPath)
                /\ activeTabPath' = IF activeTabPath = c.path THEN newPath
                                     ELSE activeTabPath
           ELSE UNCHANGED <<tabs, activeTabPath>>
    /\ refreshing' = TRUE
    /\ UNCHANGED <<models, expandedPaths, rendered, syncVars, mainVars>>

\* the tabs without the editor: files are opened, tabs activated and closed,
\* entries renamed, and every file holds the same text
TabNext ==
    \/ \E filePath \in TabFiles : OpenFile(filePath)
    \/ \E c \in BagToSet(tabCalls), ok \in BOOLEAN : ReadFileReturn(c, ok, "x")
    \/ \E i \in 1..Len(tabs) : ActivateTab(tabs[i].path)
    \/ \E i \in 1..Len(tabs), ok \in BOOLEAN : CloseTab(tabs[i].path, ok)
    \/ \E r \in Renames : PromptRename(r[1], r[2])
    \/ \E c \in BagToSet(tabCalls), ok \in BOOLEAN : RenameEntry(c, ok)
    \/ \E c \in BagToSet(tabCalls) : RenameReturn(c)
    \/ RefreshCancel

TabSpec == TabInit /\ [][TabNext]_vars

\* the tabs with the editor: texts are changed and saved as well
EditNext ==
    \/ \E filePath \in TabFiles : OpenFile(filePath)
    \/ \E c \in BagToSet(tabCalls), ok \in BOOLEAN, content \in Contents :
          ReadFileReturn(c, ok, content)
    \/ \E i \in 1..Len(tabs) : ActivateTab(tabs[i].path)
    \/ \E i \in 1..Len(tabs), ok \in BOOLEAN : CloseTab(tabs[i].path, ok)
    \/ \E content \in Contents : EditText(content)
    \/ SaveActiveTab
    \/ \E i \in 1..Len(tabs), ok \in BOOLEAN : SaveFileReturn(i, ok)
    \/ \E r \in Renames : PromptRename(r[1], r[2])
    \/ \E c \in BagToSet(tabCalls), ok \in BOOLEAN : RenameEntry(c, ok)
    \/ \E c \in BagToSet(tabCalls) : RenameReturn(c)
    \/ RefreshCancel

EditSpec == TabInit /\ [][EditNext]_vars

\* ------------------------------------------------------ the output log
\* The text of #run-log (its innerHTML) is a sequence of pieces as the HTML
\* tokenizer cuts it: the start and the end tag of a pre element, a character
\* reference, a line feed, one of the characters < > &, or a run of other text.
\* The messages of the model open no element inside a pre.
\* `[${timestamp}] `
Timestamp == <<"[t] ">>

\* the character a piece of text stands for
Decoded(piece) ==
    CASE piece = "&lt;" -> "<" [] piece = "&gt;" -> ">" [] piece = "&amp;" -> "&"
      [] OTHER -> piece

\* the piece a character of a text node is written as
Encoded(ch) ==
    CASE ch = "<" -> "&lt;" [] ch = ">" -> "&gt;" [] ch = "&" -> "&amp;"
      [] OTHER -> ch

\* a node of #run-log: a text node, or a pre element and the text in it
Node(pre, data) == [pre |-> pre, data |-> data]

RECURSIVE ParseFrom(_, _, _, _)
\* the HTML parser on the pieces left: nodes are the children made so far,
\* inPre tells that the last of them is a pre element still open, and fresh
\* that its start tag was the piece before (a line feed that follows the
\* start tag of a pre at once is dropped).  An end tag without its element is
\* ignored, and the end of the text closes a pre that is open
ParseFrom(pieces, nodes, inPre, fresh) ==
    IF pieces = <<>> THEN nodes
    ELSE LET piece == Head(pieces)
             rest == Tail(pieces)
             last == Len(nodes)
         IN  IF piece = "<pre>"
             THEN ParseFrom(rest, Append(nodes, Node(TRUE, <<>>)), TRUE, TRUE)
             ELSE IF piece = "</pre>" THEN ParseFrom(rest, nodes, FALSE, FALSE)
             ELSE IF piece = "\n" /\ inPre /\ fresh THEN ParseFrom(rest, nodes, TRUE, FALSE)
             ELSE IF inPre \/ (last > 0 /\ ~nodes[last].pre)
             THEN ParseFrom(rest,
                            [nodes EXCEPT ![last].data = Append(@, Decoded(piece))],
                            inPre, FALSE)
             ELSE ParseFrom(rest, Append(nodes, Node(FALSE, <<Decoded(piece)>>)),
                            FALSE, FALSE)

\* the setter of innerHTML: the children of the element for a text
ParseHtml(pieces) == ParseFrom(pieces, <<>>, FALSE, FALSE)

RECURSIVE SerializeNodes(_)
\* the getter of innerHTML: the children written out again
SerializeNodes(nodes) ==
    IF nodes = <<>> THEN <<>>
    ELSE LET text == [i \in 1..Len(Head(nodes).data) |-> Encoded(Head(nodes).data[i])]
         IN  (IF Head(nodes).pre THEN <<"<pre>">> \o text \o <<"</pre>">> ELSE text)
               \o SerializeNodes(Tail(nodes))

\* what innerHTML reads after it was set to a text
InnerHtml(pieces) == SerializeNodes(ParseHtml(pieces))

\* updateRunOutput(message): the content of #run-log after
\* outputEl.innerHTML += `[${timestamp}] ${message}\n`
UpdateRunOutput(log, message) == InnerHtml(log \o Timestamp \o message \o <<"\n">>)

RECURSIVE WriteAll(_, _)
\* the contents of the log after each of the calls updateRunOutput(lines[i])
WriteAll(log, lines) ==
    IF lines = <<>> THEN <<>>
    ELSE <<UpdateRunOutput(log, Head(lines))>>
           \o WriteAll(UpdateRunOutput(log, Head(lines)), Tail(lines))

\* the lines of a report, which hold no markup, as messages of one piece each
Plain(lines) == [i \in 1..Len(lines) |-> <<Text(lines[i])>>]

\* the lines runCodeOnServer writes for a success with this output and no warnings
RunSuccessReport(output) ==
    <<<<"\n=== RUN SUCCESS ===">>, <<"Output:">>, output, <<"Return code: 0">>>>

\* what a program run on the server can print
OutputTexts ==
    { <<"ok">>,
      <<"a ", "<", " b">>,
      <<"a", "&", "b">>,
      <<"&lt;", "b", "&gt;">>,
      <<"<pre>", "x", "</pre>">>,
      <<"<pre>", "\n", "x", "</pre>">>,
      <<"<pre>", "\n", "\n", "x", "</pre>">>,
      <<"<pre>", "x">>,
      <<"x", "</pre>">> }

\* a run that succeeded with an output, and the result of the next
\* run, which failed: no response, or a negative one
LogInputs ==
    [output : OutputTexts,
     failure : NegativeResponses \cup {[kind |-> "null", error |-> "", returncode |-> None]}]

LogInit == SyncInit /\ MainIdle /\ arg \in LogInputs /\ res = None

\* the two runs write their results to the log, which was empty: the contents
\* of the log after each write
LogRuns ==
    /\ res = None
    /\ LET success == WriteAll(<<>>, RunSuccessReport(arg.output))
       IN  res' = Some([success |-> success,
                        failure |-> WriteAll(success[Len(success)], Plain(RunReport(arg.failure)))])
    /\ UNCHANGED <<arg, notFnVars>>

LogNext == LogRuns

LogSpec == LogInit /\ [][LogNext]_vars

\* ------------------------------------------------------------ properties
\* the sync-tool invocations in flight whose source is root
MirrorsInFlight(root) ==
    LET S == {c \in BagToSet(calls) : c.pc = "rclone" /\ c.mirrorRoot = root}
    IN  BagCardinality([c \in S |-> calls[c]])

\* a step that sends a runCode request
RunCodeSent ==
    \E d \in BagToSet(calls') :
        d.pc = "runCode" /\ CopiesIn(d, calls') > CopiesIn(d, calls)

\* a step that starts a sync-tool invocation
ToolInvoked ==
    \E d \in BagToSet(calls') :
        d.pc = "rclone" /\ CopiesIn(d, calls') > CopiesIn(d, calls)

\* a step in which syncWithServer is entered
SyncEntered ==
    \/ ServerSaveSync
    \/ \E rootPath \in Roots : ApplyWorkspace(rootPath)
    \/ \E t \in timers : TimerTick(t)
    \/ /\ workspaceRoot # NoRoot /\ serverSettings.ip # ""
       /\ \E filePath \in RunFiles : RunCodeOnServer(filePath)

\* C1: at most one sync-tool invocation is in flight for a workspace root
C1_OneMirrorPerRoot == \A root \in Roots : MirrorsInFlight(root) <= 1

\* C2: a timer tick that fires while a sync-tool invocation is in flight
\* sends no request and starts nothing: it leaves the suspended calls as they are
C2_TickDuringMirrorIsNoOp ==
    [][ ((\E t \in timers : TimerTick(t)) /\ (\E c \in BagToSet(calls) : c.pc = "rclone"))
        => calls' = calls ]_vars

\* C3: every runCode request was sent by a runCodeOnServer call whose
\* syncWithServer call returned success
C3_RunOnlyAfterSyncSuccess ==
    \A c \in BagToSet(calls) : c.pc = "runCode" => c.syncOk

\* a mirror made inside runCodeOnServer failed and no runCode request is pending
C3_Witness ==
    lastReturn.run /\ lastReturn.result = "fail"
      /\ \A c \in BagToSet(calls) : c.pc # "runCode"

\* C4: a runCode request is sent only when the mirror that preceded it in
\* runCodeOnServer was made for the root that is open when it is sent
C4_RunOnlyForMirroredRoot ==
    [][ \A c \in BagToSet(calls) :
          (c.run /\ (\E outcome \in RcloneOutcomes : ExecuteRcloneReturn(c, outcome))
             /\ RunCodeSent)
          => c.mirrorRoot = workspaceRoot ]_vars

\* C5: syncWithServer entered with no root open or with an empty host or user
\* returns failure at once: no request is sent and no call is left suspended
C5_ConfigurationErrorIsLocal ==
    [][ (SyncEntered /\ ~ConfigurationOk(workspaceRoot', serverSettings))
        => (calls' = calls /\ lastReturn'.result = "fail"
              /\ lastReturn'.reason = "config") ]_vars

\* syncWithServer was entered with a root and a host but an empty user, and returned
C5_Witness ==
    /\ lastReturn.reason = "config"
    /\ workspaceRoot # NoRoot /\ serverSettings.ip # "" /\ serverSettings.user = ""

\* C6: a sync-tool invocation is in flight only for a call whose checkFolder
\* response was positive, and a negative response ends the call with a failure
\* that carries the server's error, starting no invocation
C6_ToolOnlyAfterPositiveCheck ==
    /\ [](\A c \in BagToSet(calls) : c.pc = "rclone" => c.checkOk)
    /\ [][ \A c \in BagToSet(calls), e \in ServerErrors :
             CheckFolderResponse(c, [kind |-> "neg", error |-> e])
             => (lastReturn' = Returned("fail", "remoteFolder", e, c.run) /\ ~ToolInvoked) ]_vars

\* a call ended on a negative checkFolder response
C6_Witness == lastReturn.reason = "remoteFolder" /\ lastReturn.msg \in ServerErrors

\* C7: a syncWithServer call that ended returned true or false, whichever
\* step failed
C7_AlwaysClassified ==
    lastReturn # NoReturn => lastReturn.result \in {"ok", "fail"}

\* the IPC call of the sync tool rejected and the call returned
C7_Witness == lastReturn.reason = "exception"

\* C8: once setupAutoSync has run with a configured interval of 0, no timer is active
C8_ZeroDisables ==
    (loadPc = "done" /\ serverSettings.syncInterval = Some(0))
      => (timers = {} /\ autoSyncInterval = None)

\* C9: at most one timer is active, and it is the one autoSyncInterval holds
C9_OneTimer ==
    /\ Cardinality(timers) <= 1
    /\ \A t \in timers : autoSyncInterval = Some(t.id)

\* the scheduler armed at the load was re-armed by a save with interval 60
C9_Witness ==
    loadPc = "done" /\ savePc = "checking" /\ timers = {[id |-> 1, period |-> 60]}

\* C10: while the scheduler holds a timer, the timer callback runs again and again
C10_TicksForever ==
    \A p \in {0, 1} :
        (autoSyncInterval # None /\ tickParity = p)
            ~> (tickParity # p \/ autoSyncInterval = None)

\* the callback of an armed timer ran and a mirror it started failed
C10_Witness ==
    autoSyncInterval # None /\ tickParity = 1 /\ lastReturn.result = "fail"

\* C11: a non-empty error message of the sync tool is classified ToolNotFound
\* exactly when it holds a tool-not-found signature and not "didn't find
\* section", and TransferError otherwise
C11_Classification ==
    (res # None /\ arg.error # <<>>) =>
        /\ res[1].class \in {"ToolNotFound", "TransferError"}
        /\ res[1].class = "ToolNotFound" <=>
              /\ \E i \in 1..Len(arg.error) : arg.error[i] \in NotFoundParts
              /\ \A i \in 1..Len(arg.error) : arg.error[i] # SectionPart
        /\ arg.error = <<"bash: rclone: ", "command not found">>
              => res[1].class = "ToolNotFound"
        /\ arg.error = <<"didn't find section", " in config file">>
              => res[1].class = "TransferError"

\* a message with a signature and "didn't find section" was classified
C11_Witness ==
    /\ res # None
    /\ arg.error = <<"The system cannot find", "didn't find section">>
    /\ res[1].class = "TransferError"

\* C12: syncWithServer appends "rclone.exe" to a configured path that ends in
\* a separator, ".exe" to one that has a separator and whose last segment is
\* "rclone" in any case of letters, and uses every other configured path,
\* the bare name "rclone" among them, as it is
C12_SyncPathResolution ==
    res # None =>
        /\ arg.trailing => res[1].sync = PathOf(arg) \o Chars("rclone.exe")
        /\ (~arg.trailing /\ Len(arg.segs) >= 2
              /\ arg.segs[Len(arg.segs)] \in {"rclone", "RClone"})
              => res[1].sync = PathOf(arg) \o Chars(".exe")
        /\ (~arg.trailing /\ arg.segs # <<>>
              /\ (Len(arg.segs) = 1 \/ arg.segs[Len(arg.segs)] \notin {"rclone", "RClone"}))
              => res[1].sync = PathOf(arg)
        /\ (arg.segs = <<"C:", "tools">> /\ arg.sep = "\\" /\ arg.trailing)
              => res[1].sync = Chars("C:\\tools\\rclone.exe")
        /\ (arg.segs = <<"rclone">> /\ ~arg.trailing) => res[1].sync = Chars("rclone")

\* a directory named RClone was configured without a separator at its end
C12_Witness ==
    /\ res # None
    /\ arg = [segs |-> <<"C:", "RClone">>, sep |-> "\\", trailing |-> FALSE]
    /\ res[1].sync = Chars("C:\\RClone.exe")

\* C13: syncWithServer, checkRcloneAvailability and updateRcloneConfig compute
\* the same executable path from a configured value
C13_SamePathEverywhere ==
    res # None => (res[1].sync = res[1].check /\ res[1].check = res[1].config)

\* C14: when the sync tool reports no error, the advisory text is the captured
\* stderr without its lines that begin with "Transferred:", "Elapsed time:"
\* or "Checking:", the other lines kept in their order
C14_StderrFilter ==
    (res # None /\ arg.error = <<>>) =>
        /\ res[1].advisory =
              Join(CharLines(SelectSeq(arg.stderr, LAMBDA l : l \in AdvisoryLines)),
                   <<"\n">>)
        /\ arg.stderr = <<"Transferred: 3 files", "Elapsed time: 2s", "permission denied: /x">>
              => res[1].advisory = Chars("permission denied: /x")

\* two kept lines are reported in their order, the progress line between them dropped
C14_Witness ==
    /\ res # None /\ arg.error = <<>>
    /\ arg.stderr = <<" Checking: b", "Checking: a", "permission denied: /x">>
    /\ res[1].advisory = Chars(" Checking: b") \o <<"\n">> \o Chars("permission denied: /x")

\* C15: when the sync tool reports no error, syncWithServer returns success
\* whether or not diagnostic text remains after filtering
C15_AdvisoryNeverFails ==
    (res # None /\ arg.error = <<>>) => res[1].outcome = "ok"

\* the mirror succeeded with diagnostic text left
C15_Witness ==
    res # None /\ arg.error = <<>> /\ res[1].outcome = "ok" /\ res[1].advisory # <<>>

\* the lines of a log
Lines(log) == {log[i] : i \in 1..Len(log)}

\* C16: a checkFolder or runCode request that got no response is reported by
\* the no-response line of its caller and not by the line of a {success:false}
\* response, whose report has that line and differs
C16_NoResponseIsDistinct ==
    res # None =>
        LET noResponse == IF arg.action = "checkFolder"
                          THEN Chars("Error checking folder on server")
                          ELSE Chars("Error: Failed to get run result from server")
            failure    == IF arg.action = "checkFolder"
                          THEN Chars("Error preparing server folder: ")
                          ELSE Chars("\n=== RUN FAILED ===")
        IN  /\ res[1].missing # res[1].negative
            /\ noResponse \in Lines(res[1].missing)
            /\ \A line \in Lines(res[1].missing) : ~StartsWith(line, failure)
            /\ \E line \in Lines(res[1].negative) : StartsWith(line, failure)

\* a runCode request got status 500, and a server failed with the text of the
\* no-response line as its error
C16_Witness ==
    /\ res # None /\ arg.action = "runCode"
    /\ arg.missing.kind = "http" /\ arg.negative.error = RunNoResponseLine
    /\ Len(res[1].missing) = 2 /\ Len(res[1].negative) >= 3

\* C17: for a file below the workspace root, the filePath of the runCode
\* request is the path of the file from the root, without the root and the
\* separator after it, and the folderName is the last segment of the root
C17_RunRequestPaths ==
    res # None =>
        /\ res[1].filePath = Join(CharLines(arg.rel), <<arg.sep>>)
        /\ res[1].folderName =
              (IF arg.root = <<>> THEN <<>> ELSE Chars(arg.root[Len(arg.root)]))

\* the name of the root occurs again below the root
C17_Witness ==
    /\ res # None
    /\ arg = [root |-> <<"w">>, rel |-> <<"w", "m.py">>, sep |-> "\\"]
    /\ res[1] = [folderName |-> Chars("w"), filePath |-> Chars("w\\m.py")]

\* the name of a node, null having none
NodeName(node) == IF node.type = "null" THEN <<>> ELSE <<node.name>>

\* the folder nodes of a snapshot of the root: the root and the folders below it
FolderNodes(tree) ==
    IF tree.type # "folder" THEN {}
    ELSE {tree} \cup {tree.children[i] : i \in {k \in 1..Len(tree.children) :
                                                   tree.children[k].type = "folder"}}

\* C18: in a snapshot of a directory tree that nothing changes during the
\* call and whose directories can all be read, the children of every folder
\* node are the entries of its directory, one child of that name for each entry
C18_ChildrenAreTheEntries ==
    (res # None /\ arg.statFails = {} /\ arg.unreadable = {}) =>
        \A node \in FolderNodes(res[1]) :
            /\ Len(node.children) =
                 Cardinality({n \in Lines(EntryNames) : KindAt(arg.fs, PathJoin(node.path, n)) # "none"})
            /\ \A n \in Lines(EntryNames) :
                 KindAt(arg.fs, PathJoin(node.path, n)) # "none"
                   <=> \E i \in 1..Len(node.children) :
                          NodeName(node.children[i]) = <<Chars(n)>>

\* the nodes of a snapshot are folder and file nodes
RECURSIVE WellFormed(_)
WellFormed(node) ==
    \/ node.type = "file"
    \/ /\ node.type = "folder"
       /\ \A i \in 1..Len(node.children) : WellFormed(node.children[i])

\* C19: the snapshot of a root that is a readable directory has folder and
\* file nodes only, a subdirectory that cannot be read or that disappeared
\* after it was listed being a folder node without children; and the snapshot
\* is null only when the root is not a directory
C19_SnapshotIsWellFormed ==
    res # None =>
        /\ (arg.fs[TreeRoot] = "dir" /\ TreeRoot \notin arg.unreadable) => WellFormed(res[1])
        /\ res[1] = Null => arg.fs[TreeRoot] # "dir"

\* p is root or lies below it
Under(p, root) == p = root \/ StartsWith(p, root \o <<"/">>)

\* C20: a workspace open that replaces the root R1 by a root R2 leaves no
\* watch on R1 or on a directory below R1 that is not below R2
C20_OldWatchesTornDown ==
    [][ (lastOp' # lastOp /\ lastOp'.op \in {"open", "pick"} /\ ~lastOp'.threw
           /\ mainRoot # NoRoot /\ mainRoot' # mainRoot)
        => \A p \in watchers' : Under(p, mainRoot) => Under(p, mainRoot') ]_vars

\* the step is the callback of a watch for a change of the path p
CallbackStep(p) ==
    /\ p \in events /\ events' = events \ {p}
    /\ lastOp'.op = "callback" /\ lastOp'.path = p

\* C21: every directory has at most one watch handle that is not closed, and
\* attachWatcher on a path that is armed makes no handle and changes nothing
C21_OneHandlePerPath ==
    /\ [](\A d \in WatchDirs : HandlesOn(d, handles) <= 1)
    /\ [][ \A p \in WatchDirs :
              (CallbackStep(p) /\ p \in Existing /\ p \in watchers)
              => (handles' = handles /\ watchers' = watchers /\ lastOp'.created = {}) ]_vars

\* a callback has called attachWatcher on a directory that had a live watch
C21_Witness ==
    /\ lastOp.op = "callback" /\ lastOp.path \in Existing /\ ~lastOp.threw
    /\ lastOp.created = {}
    /\ CopiesIn(Handle(lastOp.path, TRUE), handles) = 1
    /\ \E d \in WatchDirs \ {lastOp.path} : CopiesIn(Handle(d, TRUE), handles) = 1

\* the step is a call of watchFolderRecursive(root) that returned: no other
\* step leaves an open or a pick as the last handler without a new event or
\* a change of the directories
ArmStep(root) ==
    /\ lastOp'.op \in {"open", "pick"} /\ lastOp'.path = root /\ ~lastOp'.threw
    /\ dirs' = dirs /\ events' \subseteq events

C23_RefreshAndArm ==
    [][ \A p \in WatchDirs :
          (CallbackStep(p) /\ mainRoot # NoRoot /\ ~lastOp'.threw) =>
             /\ sent' = Message("workspace-refresh", mainRoot)
             /\ p \in Existing => CopiesIn(Handle(p, TRUE), handles') = 1 ]_vars

\* the step is a workspace open of root, through the menu or the button
OpenStep(root) ==
    /\ lastOp'.op \in {"open", "pick"} /\ lastOp'.path = root
    /\ dirs' = dirs /\ events' \subseteq events

\* C24: a workspace open lets no exception out of watchFolderRecursive, makes
\* its root the workspace root and hands it to the window, and leaves a live
\* watch on every directory below the root outside one subtree, the one whose
\* watch failed
C24_WatchFailureSwallowed ==
    [][ \A root \in WatchDirs : OpenStep(root) =>
          /\ ~lastOp'.threw
          /\ mainRoot' = root /\ sent'.rootPath = root
          /\ \E failed \in WatchDirs :
                \A d \in Existing :
                   (Under(d, root) /\ ~Under(d, failed))
                   => CopiesIn(Handle(d, TRUE), handles') = 1 ]_vars

\* C25: readServerSettings that finds no settings file and a bundled default
\* returns the default and leaves its text in the settings file, and a load
\* that follows a load of the default reads the file and returns the default
C25_DefaultIsSeeded ==
    (lastStore.op = "read" /\ pending.op # "write") =>
       /\ lastStore.from = "bundled" =>
             (lastStore.result = DefaultSettings /\ persisted = bundled)
       /\ lastStore.after = Brief("read", DefaultSettings, DefaultSettings, FALSE) =>
             (lastStore.from = "persisted" /\ lastStore.result = DefaultSettings)

\* C26: writeServerSettings whose writeFileSync succeeded returns true and
\* the settings file holds the new settings, however updateRcloneConfig ended
C26_SavedWhateverProvisioning ==
    (lastStore.op = "write" /\ lastStore.wrote) =>
       /\ lastStore.ok
       /\ pending = NoPending =>
             (persisted # None /\ Parse(persisted[1]) = Some(lastStore.settings))

\* C30: readServerSettings that follows a writeServerSettings(c) which
\* returned true, with no other handler in between, returns c
C30_RoundTrip ==
    (lastStore.op = "read" /\ lastStore.after.op = "write" /\ lastStore.after.ok)
       => lastStore.result = lastStore.after.settings

\* settings with a quote and backslashes were written, the profile was
\* created, and they were read back
C30_Witness ==
    /\ lastStore.op = "read" /\ lastStore.from = "persisted"
    /\ lastStore.after.op = "write" /\ lastStore.after.ok
    /\ lastStore.after.settings.rclonePath = "C:\\rc\\"
    /\ lastStore.result.pass = "a\"b" /\ lastStore.result.syncInterval = Some(-5)
    /\ lastStore.provision = "created"

\* writeServerSettings(s) has persisted s and its call of updateRcloneConfig
\* has returned
SavedAndProvisioned(s) ==
    /\ lastStore.op = "write" /\ lastStore.settings = s /\ pending = NoPending
    /\ lastStore.wrote /\ lastStore.provision # "none"
    /\ persisted # None /\ Parse(persisted[1]) = Some(s)

\* C27: when the server-save handler makes the new settings the ones
\* syncWithServer uses, and when it starts its mirror, the main process has
\* persisted them and its call of updateRcloneConfig for them has returned
C27_SaveOrder ==
    [][ /\ (savePc = "writing" /\ savePc' = "checking") => SavedAndProvisioned(serverSettings')
        /\ (savePc = "checking" /\ savePc' = "idle") => SavedAndProvisioned(serverSettings)
      ]_vars

\* C29: when a call of syncWithServer goes from its checkFolder request to
\* the invocation of the sync tool, the folder name it computed for the
\* request, which is the remote target of the invocation, is the last
\* segment of the local root the invocation is given as its source
C29_TargetNamesSource ==
    [][ \A c \in BagToSet(calls), d \in BagToSet(calls') :
          ( /\ c.pc = "fetch" /\ CopiesIn(c, calls') < CopiesIn(c, calls)
            /\ d.pc = "rclone" /\ CopiesIn(d, calls') > CopiesIn(d, calls) )
          => c.projectName = LastSegment(d.mirrorRoot) ]_vars

\* C28: when the window starts the initial mirror of a workspace that was
\* opened, the main process has finished the open: the root and every
\* directory below it has a live watch
C28_MirrorAfterArming ==
    [][ (inbox # <<>> /\ inbox' = Tail(inbox)) =>
          /\ armPending # Head(inbox).rootPath
          /\ \A d \in Existing :
                Under(d, Head(inbox).rootPath) => CopiesIn(Handle(d, TRUE), handles) = 1
      ]_vars

\* no call of the window is with the main process and no message or reply
\* of the main process is on its way
ExplorerQuiet == inbox = <<>> /\ ~refreshing /\ armPending = NoRoot

\* C31: once no call and no message is pending between the window and the
\* main process, both hold the same workspace root; and the refresh of the
\* tree after a create or a delete leaves the root of the main process, the
\* keys of its Map and its watch handles as they were.
C31_RootsAgree ==
    /\ [](ExplorerQuiet => mainRoot = workspaceRoot)
    /\ [][refreshing /\ ~refreshing'
            => mainRoot' = mainRoot /\ watchers' = watchers /\ handles' = handles]_vars

\* C36: the handler of 'workspace-refresh' leaves the root and the expanded
\* folders as they are; when the rootPath of the event is not the root open in
\* the window it leaves the tree on display as it is too, and when it is that
\* root the tree on display becomes the tree of the event.
C36_RefreshOnlyForOpenRoot ==
    [][(inbox # <<>> /\ Head(inbox).channel = "workspace-refresh" /\ inbox' = Tail(inbox))
          => /\ workspaceRoot' = workspaceRoot
             /\ expandedPaths' = expandedPaths
             /\ rendered' = IF Head(inbox).rootPath = workspaceRoot
                            THEN Head(inbox).tree ELSE rendered]_vars

\* the window has handled a refresh for a root other than the one it has open,
\* whose tree it still shows
C36_Witness ==
    /\ inbox = <<>>
    /\ sent.channel = "workspace-refresh"
    /\ workspaceRoot # NoRoot
    /\ sent.rootPath # workspaceRoot
    /\ rendered # Null
    /\ rendered.path = workspaceRoot

\* C32: no two open tabs have the same file path, also when openFile is
\* called again for a path whose file an earlier openFile is still reading.
C32_NoDuplicateTabs ==
    \A i, j \in 1..Len(tabs) : i # j => tabs[i].path # tabs[j].path

\* C33: the model of a tab that is not marked dirty holds the text that the
\* editor read from or wrote to the file of the tab last, also after an edit
\* made while saveActiveTab was waiting for the write.
C33_CleanMeansSynced ==
    \A i \in 1..Len(tabs) : ~tabs[i].dirty => GetValue(tabs[i].model) = tabs[i].synced

\* C34: activeTabPath is null or the path of a tab of the list, and it is
\* null only when the list is empty.
C34_ActiveTabIsOpen ==
    /\ activeTabPath # NoRoot => \E i \in 1..Len(tabs) : tabs[i].path = activeTabPath
    /\ activeTabPath = NoRoot => tabs = <<>>

\* two files were opened and the tab of one was closed; the tab that is left
\* was renamed and is the active one
C34_Witness ==
    /\ Len(tabs) = 1
    /\ Cardinality(models) = 2
    /\ tabs[1].path # tabs[1].model
    /\ activeTabPath = tabs[1].path

\* C35: when the handler of promptRename goes on after a rename of P that
\* succeeded, no tab is left with the path P or a path below P, and
\* activeTabPath is not such a path either.
C35_NoTabOnOldPath ==
    [][\A c \in BagToSet(tabCalls) :
          (c.op = "rename" /\ c.done = "ok" /\ tabCalls' = tabCalls (-) SetToBag({c}))
            => /\ \A i \in 1..Len(tabs') : ~Under(tabs'[i].path, c.path)
               /\ ~Under(activeTabPath', c.path)]_vars

\* C37: every write to the log keeps the content the log had before as a
\* prefix of its new content, and a run that failed has written at least one
\* line before runCodeOnServer returns.
C37_AppendOnly ==
    res # None =>
        LET all == <<<<>>>> \o res[1].success \o res[1].failure
        IN  /\ \A k \in 1..(Len(all) - 1) : StartsWith(all[k + 1], all[k])
            /\ Len(res[1].failure) >= 1
            /\ all[Len(all)] # res[1].success[Len(res[1].success)]
====
